---------------------------- MODULE Spec2Model ----------------------------
(***************************************************************************)
(* State-machine model of the WebSocket communication hub:                 *)
(*   websocket/connection_manager.py, websocket/connection_pool.py,        *)
(*   messaging/offline_queue.py, storage/message_store.py,                 *)
(*   rooms/room_manager.py, rooms/room_store.py,                           *)
(*   hub/communication_hub.py and the event handlers of api/app.py.        *)
(* Each class method is an operator on the data it reads and writes; each  *)
(* specification below drives one component (or the handlers of app.py)    *)
(* with its own next-state relation over the shared variables.             *)
(***************************************************************************)
EXTENDS Integers, Sequences, FiniteSets, TLC

(* ------------------------------ bounds --------------------------------- *)
MaxUsers == 2           \* user ids are 1..MaxUsers (0 is falsy, rejected by app.py)
MaxConnIds == 3         \* connection ids offered to the raw registry API / uuids drawn
MaxPerUser == 2         \* max_connections_per_user the pool is constructed with
MaxMessages == 2        \* max_messages the offline queue is constructed with
MaxRows == 3            \* cap on the autoincrement counter of the messages table
MaxClock == 1           \* wall-clock values are 0..MaxClock (one-second ticks)
MaxEntries == 3         \* cap on the list entries held when a registry is driven directly
MaxThreads == 2         \* calls / event handlers that may be in progress at once
MaxSessions == 2        \* transport sessions (sids) that ever connect
MaxAccepted == 3        \* register and message events accepted in a run of the hub
MaxRooms == 2           \* room ids are 1..MaxRooms
MaxMembers == 2         \* largest max_members a room is created with
MaxSize == 2            \* max_size of the in-memory MessageQueue

Users == 1..MaxUsers
ConnIds == 1..MaxConnIds
Threads == 1..MaxThreads
Sessions == 1..MaxSessions
RoomIds == 1..MaxRooms
None == 0               \* Python None / SQL NULL (ids and timestamps are >= 1 / >= 0)
NULL == -1              \* SQL NULL of a timestamp column

VARIABLES
    connections,        \* ConnectionManager.connections   {connection_id: info}
    user_connections,   \* ConnectionManager.user_connections {user_id: [ids]}
    pool,               \* ConnectionPool.user_connections {user_id: [ids]}
    messages,           \* rows of table messages, in rowid order
    lastId,             \* sqlite_sequence of table messages (AUTOINCREMENT)
    now,                \* wall clock read by CURRENT_TIMESTAMP
    presence,           \* rows of table connection_state {user_id: state}
    message_count,      \* MessageHandler.message_count
    sessions,           \* transport sessions: "new", "open" or "closed"
    uuids,              \* number of uuid4 connection ids drawn so far
    rooms,              \* rows of table rooms {room_id: row}
    room_members,       \* rows of table room_members (room_id, user_id)
    queues,             \* MessageQueue.queues {user_id: deque(maxlen=max_size)}
    threads,            \* the calls in progress: each thread's position and locals
    last                \* the last call made and what it returned

hubVars == <<presence, message_count, sessions, uuids>>
roomVars == <<rooms, room_members>>
vars == <<connections, user_connections, pool, messages, lastId, now,
          presence, message_count, sessions, uuids, rooms, room_members,
          queues, threads, last>>

(* ------------------------- Python dict and list ------------------------ *)
EmptyDict == [k \in {} |-> None]
DictGet(d, k, default) == IF k \in DOMAIN d THEN d[k] ELSE default
DictSet(d, k, v) == [x \in (DOMAIN d) \cup {k} |-> IF x = k THEN v ELSE d[x]]
DictDel(d, k) == [x \in (DOMAIN d) \ {k} |-> d[x]]

InList(s, x) == \E i \in 1..Len(s) : s[i] = x
\* list.remove(x): drops the first occurrence of x
ListRemove(s, x) ==
    IF ~InList(s, x) THEN s
    ELSE LET i == CHOOSE i \in 1..Len(s) :
                      s[i] = x /\ \A j \in 1..(i-1) : s[j] /= x
         IN  SubSeq(s, 1, i-1) \o SubSeq(s, i+1, Len(s))

(* ----------------------------- ConnectionPool -------------------------- *)
\* a limit check that admits one connection too many
CanAddConnectionOffByOne(p, user_id) ==
    IF user_id \notin DOMAIN p THEN TRUE
    ELSE Len(p[user_id]) <= MaxPerUser

CanAddConnection(p, user_id) ==
    IF user_id \notin DOMAIN p THEN TRUE
    ELSE Len(p[user_id]) < MaxPerUser

\* add_connection: the pair <<pool after, return value>>
PoolAddConnection(p, user_id, connection_id) ==
    IF ~CanAddConnection(p, user_id) THEN <<p, FALSE>>
    ELSE LET p1 == IF user_id \notin DOMAIN p THEN DictSet(p, user_id, <<>>) ELSE p
         IN  <<DictSet(p1, user_id, Append(p1[user_id], connection_id)), TRUE>>

PoolRemoveConnection(p, user_id, connection_id) ==
    IF user_id \in DOMAIN p /\ InList(p[user_id], connection_id)
    THEN LET l == ListRemove(p[user_id], connection_id)
         IN  IF l = <<>> THEN DictDel(p, user_id) ELSE DictSet(p, user_id, l)
    ELSE p

GetUserConnectionCount(p, user_id) == Len(DictGet(p, user_id, <<>>))

RECURSIVE TotalEntries(_)
\* number of list entries held by a {user_id: [ids]} dict (model bookkeeping)
TotalEntries(d) ==
    IF DOMAIN d = {} THEN 0
    ELSE LET k == CHOOSE k \in DOMAIN d : TRUE
         IN  Len(d[k]) + TotalEntries(DictDel(d, k))

(* --------------------------- ConnectionManager ------------------------- *)
\* The registry is the pair of dicts [conns, by_user].
CMAddConnection(cm, connection_id, user_id, sid) ==
    LET info == [connection_id |-> connection_id, user_id |-> user_id, sid |-> sid]
        bu   == IF user_id \notin DOMAIN cm.by_user
                THEN DictSet(cm.by_user, user_id, <<>>) ELSE cm.by_user
    IN  [conns   |-> DictSet(cm.conns, connection_id, info),
         by_user |-> DictSet(bu, user_id, Append(bu[user_id], connection_id))]

\* remove_connection that drops the user's whole list with the connection
CMRemoveConnectionWholeUser(cm, connection_id) ==
    IF connection_id \in DOMAIN cm.conns
    THEN LET user_id == cm.conns[connection_id].user_id
         IN  [conns |-> DictDel(cm.conns, connection_id),
              by_user |-> DictDel(cm.by_user, user_id)]
    ELSE cm

\* remove_connection without the clean-up of an emptied list
CMRemoveConnectionNoCleanup(cm, connection_id) ==
    IF connection_id \in DOMAIN cm.conns
    THEN LET user_id == cm.conns[connection_id].user_id
             c1 == DictDel(cm.conns, connection_id)
         IN  IF user_id \in DOMAIN cm.by_user
             THEN [conns |-> c1,
                   by_user |-> DictSet(cm.by_user, user_id,
                                       ListRemove(cm.by_user[user_id], connection_id))]
             ELSE [conns |-> c1, by_user |-> cm.by_user]
    ELSE cm

CMRemoveConnection(cm, connection_id) ==
    IF connection_id \in DOMAIN cm.conns
    THEN LET user_id == cm.conns[connection_id].user_id
             c1 == DictDel(cm.conns, connection_id)
         IN  IF user_id \in DOMAIN cm.by_user
             THEN LET l == ListRemove(cm.by_user[user_id], connection_id)
                  IN  [conns |-> c1,
                       by_user |-> IF l = <<>> THEN DictDel(cm.by_user, user_id)
                                   ELSE DictSet(cm.by_user, user_id, l)]
             ELSE [conns |-> c1, by_user |-> cm.by_user]
    ELSE cm

GetConnection(cm, connection_id) == DictGet(cm.conns, connection_id, None)
GetUserConnections(cm, user_id) == DictGet(cm.by_user, user_id, <<>>)
IsUserOnline(cm, user_id) ==
    user_id \in DOMAIN cm.by_user /\ Len(cm.by_user[user_id]) > 0
GetOnlineUsers(cm) == DOMAIN cm.by_user

\* get_stats
GetStats(cm) ==
    [total_connections |-> Cardinality(DOMAIN cm.conns),
     online_users |-> Cardinality(DOMAIN cm.by_user),
     connections_by_user |-> [u \in DOMAIN cm.by_user |-> Len(cm.by_user[u])]]

CM == [conns |-> connections, by_user |-> user_connections]
Idle == [pc |-> "idle"]

(* ------------------------- table messages (SQLite) --------------------- *)
\* The table is the pair [rows, seq]: the rows in rowid order and the
\* AUTOINCREMENT counter (sqlite_sequence), which never decreases.
DB == [rows |-> messages, seq |-> lastId]

\* json.dumps / json.loads: the stored text wraps the value it encodes
Dumps(v) == [null |-> FALSE, json |-> v]
Loads(text) == text.json
NullText == [null |-> TRUE]         \* SQL NULL in a text column
Truthy(d) == DOMAIN d /= {}         \* a dict is falsy iff it is empty

\* the INSERT of a table whose id is a plain INTEGER PRIMARY KEY: one above the
\* largest id present
InsertMessageMaxRowid(db, sender_id, recipient_id, room_id, message_type, content, t) ==
    LET top == IF db.rows = <<>> THEN 0
               ELSE CHOOSE n \in { db.rows[i].id : i \in 1..Len(db.rows) } :
                       \A i \in 1..Len(db.rows) : db.rows[i].id <= n
    IN  [rows |-> Append(db.rows,
                         [id |-> top + 1, sender_id |-> sender_id,
                          recipient_id |-> recipient_id, room_id |-> room_id,
                          message_type |-> message_type, content |-> content,
                          delivered |-> 0, created_at |-> t, delivered_at |-> NULL]),
         seq |-> top + 1]

\* INSERT INTO messages (...): id from AUTOINCREMENT, created_at from the clock
InsertMessage(db, sender_id, recipient_id, room_id, message_type, content, t) ==
    [rows |-> Append(db.rows,
                     [id |-> db.seq + 1, sender_id |-> sender_id,
                      recipient_id |-> recipient_id, room_id |-> room_id,
                      message_type |-> message_type, content |-> content,
                      delivered |-> 0, created_at |-> t, delivered_at |-> NULL]),
     seq |-> db.seq + 1]

\* WHERE recipient_id = ? AND delivered = 0 (rowid order)
Undelivered(rows, user_id) ==
    SelectSeq(rows, LAMBDA r : r.recipient_id = user_id /\ r.delivered = 0)

\* SELECT COUNT(*) FROM messages WHERE recipient_id = ? AND delivered = 0
CountUndelivered(rows, user_id) == Len(Undelivered(rows, user_id))

\* ORDER BY created_at ASC over rows scanned in rowid order: sorted by
\* created_at, rows with equal created_at staying in scan order (SQLite's
\* sorter appends the scan sequence number to the key).
OrderByCreatedAt(s) ==
    LET q == CHOOSE q \in Permutations(1..Len(s)) :
                 \A i, j \in 1..Len(s) :
                     i < j => \/ s[q[i]].created_at < s[q[j]].created_at
                              \/ /\ s[q[i]].created_at = s[q[j]].created_at
                                 /\ q[i] < q[j]
    IN  [i \in 1..Len(s) |-> s[q[i]]]

\* SELECT id ... ORDER BY created_at ASC LIMIT 1: the id the subquery yields,
\* as a set ({} when no row qualifies: the DELETE then matches nothing)
OldestUndeliveredId(rows, user_id) ==
    LET o == OrderByCreatedAt(Undelivered(rows, user_id))
    IN  IF Len(o) > 0 THEN {o[1].id} ELSE {}

DeleteById(rows, ids) == SelectSeq(rows, LAMBDA r : r.id \notin ids)

(* ------------------------------ OfflineQueue --------------------------- *)
\* add_message after its COUNT(*) returned `count`: the DELETE of the oldest
\* undelivered row (when count >= max_messages) and the INSERT, committed
\* together.  Returns <<table after, message_id>>.
AddMessageWrite(db, user_id, message, sender_id, count, t) ==
    LET rows1 == IF count >= MaxMessages
                 THEN DeleteById(db.rows, OldestUndeliveredId(db.rows, user_id))
                 ELSE db.rows
        db2   == InsertMessage([rows |-> rows1, seq |-> db.seq], sender_id, user_id,
                               None, "offline", Dumps(message), t)
    IN  <<db2, db2.seq>>

\* get_messages: the list returned
GetMessages(rows, user_id) ==
    LET o == OrderByCreatedAt(Undelivered(rows, user_id))
    IN  [i \in 1..Len(o) |->
           [id |-> o[i].id, sender_id |-> o[i].sender_id,
            content |-> IF ~o[i].content.null THEN Loads(o[i].content) ELSE EmptyDict,
            created_at |-> o[i].created_at]]

\* UPDATE messages SET delivered = 1, delivered_at = CURRENT_TIMESTAMP WHERE id = ?
MarkDelivered(rows, message_id, t) ==
    [i \in 1..Len(rows) |->
        IF rows[i].id = message_id
        THEN [rows[i] EXCEPT !.delivered = 1, !.delivered_at = t]
        ELSE rows[i]]

GetQueueSize(rows, user_id) == CountUndelivered(rows, user_id)

(* ------------------------------ MessageQueue --------------------------- *)
\* queues maps every user to a deque(maxlen = MaxSize): the defaultdict makes
\* the empty deque of a user on first access.

\* append on a deque that refuses the new item when it is full
EnqueueDropsNewest(qs, user_id, message) ==
    IF Len(qs[user_id]) >= MaxSize THEN qs
    ELSE [qs EXCEPT ![user_id] = Append(@, message)]

\* enqueue: deque.append, which discards from the left end once maxlen is reached
Enqueue(qs, user_id, message) ==
    [qs EXCEPT ![user_id] = IF Len(@) >= MaxSize
                            THEN Append(Tail(@), message)
                            ELSE Append(@, message)]

\* dequeue: <<queues after, the message as a one-item list, empty for None>>
Dequeue(qs, user_id) ==
    IF Len(qs[user_id]) > 0
    THEN <<[qs EXCEPT ![user_id] = Tail(@)], <<Head(qs[user_id])>>>>
    ELSE <<qs, <<>>>>

\* dequeue_all: <<queues after, the list returned>>
DequeueAll(qs, user_id) == <<[qs EXCEPT ![user_id] = <<>>], qs[user_id]>>

\* MessageQueue.get_queue_size
QueueSize(qs, user_id) == Len(qs[user_id])

ClearQueue(qs, user_id) == [qs EXCEPT ![user_id] = <<>>]

(* ------------------------------ MessageStore --------------------------- *)
\* save_message: <<table after, message_id>>
SaveMessage(db, sender_id, recipient_id, room_id, message_type, content, t) ==
    LET db2 == InsertMessage(db, sender_id, recipient_id, room_id, message_type,
                             IF Truthy(content) THEN Dumps(content) ELSE NullText, t)
    IN  <<db2, db2.seq>>

\* delete_old_messages(days): DELETE ... WHERE datetime(created_at) <
\* datetime('now', '-days days'), the clock counted in days here
DeleteOldMessages(rows, days, t) ==
    SelectSeq(rows, LAMBDA r : ~(r.created_at < t - days))

\* get_undelivered_messages: the list returned
GetUndeliveredMessages(rows, user_id) ==
    LET o == OrderByCreatedAt(Undelivered(rows, user_id))
    IN  [i \in 1..Len(o) |->
           [id |-> o[i].id, sender_id |-> o[i].sender_id,
            message_type |-> o[i].message_type,
            content |-> IF ~o[i].content.null THEN Loads(o[i].content) ELSE EmptyDict,
            created_at |-> o[i].created_at]]

(* ------------------------- RoomManager, RoomStore ---------------------- *)
\* The two tables are rs = [rooms, members]: rooms maps a room_id to its row,
\* members is the set of rows (room_id, user_id) of room_members, whose primary
\* key is the pair.
RoomRow(room_name, created_by, is_private, max_members) ==
    [room_name |-> room_name, created_by |-> created_by,
     is_private |-> is_private, max_members |-> max_members]

\* create_room that overwrites the row of an existing id (INSERT OR REPLACE)
CreateRoomReplaces(rs, room_id, row) ==
    [rs EXCEPT !.rooms = DictSet(rs.rooms, room_id, row)]

\* create_room: INSERT INTO rooms; the IntegrityError of a taken room_id is
\* caught and only logged
CreateRoom(rs, room_id, row) ==
    IF room_id \in DOMAIN rs.rooms
    THEN rs
    ELSE [rs EXCEPT !.rooms = DictSet(rs.rooms, room_id, row)]

\* SELECT COUNT(*) FROM room_members WHERE room_id = ?
MemberCount(members, room_id) ==
    Cardinality({ m \in members : m.room_id = room_id })

\* INSERT INTO room_members; the IntegrityError of a pair already there is caught
InsertMember(members, room_id, user_id) ==
    members \cup {[room_id |-> room_id, user_id |-> user_id]}

\* join_room with the capacity test off by one (count > max_members)
JoinRoomOffByOne(rs, room_id, user_id) ==
    IF room_id \notin DOMAIN rs.rooms THEN <<rs, FALSE>>
    ELSE IF MemberCount(rs.members, room_id) > rs.rooms[room_id].max_members
    THEN <<rs, FALSE>>
    ELSE <<[rs EXCEPT !.members = InsertMember(@, room_id, user_id)], TRUE>>

\* join_room without the test that the room exists
JoinRoomNoRoomCheck(rs, room_id, user_id) ==
    IF room_id \in DOMAIN rs.rooms
       /\ MemberCount(rs.members, room_id) >= rs.rooms[room_id].max_members
    THEN <<rs, FALSE>>
    ELSE <<[rs EXCEPT !.members = InsertMember(@, room_id, user_id)], TRUE>>

\* join_room: <<tables afterwards, value returned>>
JoinRoom(rs, room_id, user_id) ==
    IF room_id \notin DOMAIN rs.rooms THEN <<rs, FALSE>>
    ELSE IF MemberCount(rs.members, room_id) >= rs.rooms[room_id].max_members
    THEN <<rs, FALSE>>
    ELSE <<[rs EXCEPT !.members = InsertMember(@, room_id, user_id)], TRUE>>

\* leave_room that deletes every membership of the user (WHERE user_id = ?)
LeaveRoomEverywhere(rs, room_id, user_id) ==
    [rs EXCEPT !.members = { m \in @ : m.user_id /= user_id }]

\* leave_room: DELETE FROM room_members WHERE room_id = ? AND user_id = ?
LeaveRoom(rs, room_id, user_id) ==
    [rs EXCEPT !.members = { m \in @ : ~(m.room_id = room_id /\ m.user_id = user_id) }]

\* RoomStore.delete_room: the room's members, then the room
DeleteRoom(rs, room_id) ==
    [rooms |-> DictDel(rs.rooms, room_id),
     members |-> { m \in rs.members : m.room_id /= room_id }]

\* get_room_info whose member_count counts the rows of every room
GetRoomInfoCountsAll(rs, room_id) ==
    IF room_id \in DOMAIN rs.rooms
    THEN { [row |-> rs.rooms[room_id], member_count |-> Cardinality(rs.members)] }
    ELSE {}

\* get_room_info: the room's row with its COUNT(*) of room_members, as a set
\* that is empty where the code returns None
GetRoomInfo(rs, room_id) ==
    IF room_id \in DOMAIN rs.rooms
    THEN { [row |-> rs.rooms[room_id],
            member_count |-> MemberCount(rs.members, room_id)] }
    ELSE {}

\* get_room_members / get_user_rooms, as sets
GetRoomMembers(members, room_id) == { m.user_id : m \in { x \in members : x.room_id = room_id } }
GetUserRooms(members, user_id) == { m.room_id : m \in { x \in members : x.user_id = user_id } }

RS == [rooms |-> rooms, members |-> room_members]

(* ------------------------------ MessageHandler ------------------------- *)
\* dict.get(key) on a message dict
MsgGet(m, key) == IF key \in DOMAIN m THEN m[key] ELSE None

\* process_message: the envelope stamped with the next message_count (the
\* time.time() float of 'timestamp', which nothing reads, is left out; a
\* recipient_id the client sent as null is copied as None); type is the
\* client's, 'text' when the key is absent, and recipient_id and room_id are
\* copied when the client sent them
ProcessMessage(count, data, sender_id) ==
    LET id == count + 1
        content == IF "content" \in DOMAIN data THEN data.content ELSE ""
        type == IF "type" \in DOMAIN data THEN data.type ELSE "text"
    IN  IF "recipient_id" \in DOMAIN data /\ "room_id" \in DOMAIN data
        THEN [id |-> id, sender_id |-> sender_id, content |-> content, type |-> type,
              recipient_id |-> data.recipient_id, room_id |-> data.room_id]
        ELSE IF "recipient_id" \in DOMAIN data
        THEN [id |-> id, sender_id |-> sender_id, content |-> content, type |-> type,
              recipient_id |-> data.recipient_id]
        ELSE IF "room_id" \in DOMAIN data
        THEN [id |-> id, sender_id |-> sender_id, content |-> content, type |-> type,
              room_id |-> data.room_id]
        ELSE [id |-> id, sender_id |-> sender_id, content |-> content, type |-> type]

\* validate_message, for a message that is a dict
ValidTypes == {"text", "image", "file", "notification"}
ValidateMessage(message) ==
    /\ "content" \in DOMAIN message
    /\ ~("type" \in DOMAIN message /\ message.type /= "" /\ message.type \notin ValidTypes)

(* ------------------------------ ConnectionState ------------------------ *)
\* set_state that never writes the offline state
SetStateNeverOffline(pres, user_id, state) ==
    IF state = "offline" THEN pres ELSE DictSet(pres, user_id, [state |-> state])

\* set_state: INSERT OR REPLACE INTO connection_state (last_seen and updated_at,
\* which no decision reads, are left out)
SetState(pres, user_id, state) ==
    DictSet(pres, user_id, [state |-> state])

\* the three state constants of ConnectionState
States == {"online", "offline", "away"}

\* get_state: the dict made of the user's row (last_seen left out), as a set
\* that is empty where the code returns None
GetState(pres, user_id) ==
    IF user_id \in DOMAIN pres THEN { [state |-> pres[user_id].state] } ELSE {}

\* get_online_users that counts away users as online
StateOnlineUsersWithAway(pres) ==
    { u \in DOMAIN pres : pres[u].state \in {"online", "away"} }

\* ConnectionState.get_online_users: SELECT user_id ... WHERE state = 'online'
StateOnlineUsers(pres) == { u \in DOMAIN pres : pres[u].state = "online" }

(* ------------------------------ CommunicationHub ----------------------- *)
\* The hub works on st = [cm, db, sends]: the registry, the messages table and
\* one record per send_to_user call made so far by the running handler, with
\* the socketio.emit calls it made and the ids of the rows it stored.

\* a loop that stops after its first emit
EmitsToFirst(cm, connection_ids, message) ==
    LET found == SelectSeq(connection_ids, LAMBDA c : c \in DOMAIN cm.conns)
    IN  [i \in 1..(IF Len(found) > 0 THEN 1 ELSE 0) |->
           [event |-> "message", msg |-> message,
            room |-> GetConnection(cm, found[i]).sid, conn |-> found[i]]]

\* the emits of the loop over connection_ids: one per id that get_connection finds
EmitsTo(cm, connection_ids, message) ==
    LET found == SelectSeq(connection_ids, LAMBDA c : c \in DOMAIN cm.conns)
    IN  [i \in 1..Len(found) |->
           [event |-> "message", msg |-> message,
            room |-> GetConnection(cm, found[i]).sid, conn |-> found[i]]]

\* send_to_user: emit to every connection of the list, or save_message when the
\* list is empty
SendToUser(st, user_id, message, t) ==
    LET connection_ids == GetUserConnections(st.cm, user_id)
    IN  IF Len(connection_ids) > 0
        THEN LET es == EmitsTo(st.cm, connection_ids, message)
             IN  [st EXCEPT !.sends = Append(@, [user |-> user_id, emitted |-> es,
                                                 stored |-> {}])]
        ELSE LET r == SaveMessage(st.db, MsgGet(message, "sender_id"), user_id, None,
                                  "direct", message, t)
             IN  [st EXCEPT !.db = r[1],
                            !.sends = Append(@, [user |-> user_id, emitted |-> <<>>,
                                                 stored |-> {r[2]}])]

\* send_to_room that files the message under its sender as a direct message
SendToRoomAsDirect(st, room_id, message, t) ==
    LET r == SaveMessage(st.db, MsgGet(message, "sender_id"), MsgGet(message, "sender_id"),
                         room_id, "room", message, t)
    IN  [st EXCEPT !.db = r[1],
                   !.sends = Append(@, [room |-> room_id,
                                        emitted |-> <<[event |-> "room_message",
                                                       msg |-> message, room |-> room_id]>>,
                                        stored |-> {r[2]}])]

\* send_to_room: one emit to the Socket.IO room named room_id, then save_message
\* with that room_id and no recipient
SendToRoom(st, room_id, message, t) ==
    LET r == SaveMessage(st.db, MsgGet(message, "sender_id"), None, room_id, "room",
                         message, t)
    IN  [st EXCEPT !.db = r[1],
                   !.sends = Append(@, [room |-> room_id,
                                        emitted |-> <<[event |-> "room_message",
                                                       msg |-> message, room |-> room_id]>>,
                                        stored |-> {r[2]}])]

\* broadcast_all: one emit with no room, which the transport hands to every
\* connected session.  The emits of a broadcast are a set of records.
BroadcastAll(message) == { [event |-> "broadcast", msg |-> message, room |-> None] }

\* BroadcastManager.broadcast_to_all: with a truthy exclude_user, one emit per
\* registered connection of every other user of the registry; else one emit
\* with no room
BroadcastToAll(cm, message, exclude_user) ==
    IF exclude_user /= None
    THEN { [event |-> "broadcast", msg |-> message, room |-> GetConnection(cm, c).sid] :
             c \in { x \in DOMAIN cm.conns :
                       \E u \in GetOnlineUsers(cm) \ {exclude_user} :
                          InList(GetUserConnections(cm, u), x) } }
    ELSE BroadcastAll(message)

\* MessageRouter.route_message: the branch taken on message['type'], with the
\* hub call it makes; path names the hub method called ("none": no call)
RouteMessage(st, message, t) ==
    LET message_type == MsgGet(message, "type")
    IN  IF message_type = "direct"
        THEN IF MsgGet(message, "recipient_id") /= None
             THEN [st |-> SendToUser(st, message.recipient_id, message, t),
                   emits |-> {}, path |-> "send_to_user"]
             ELSE [st |-> st, emits |-> {}, path |-> "none"]
        ELSE IF message_type = "room"
        THEN IF MsgGet(message, "room_id") /= None
             THEN [st |-> SendToRoom(st, message.room_id, message, t),
                   emits |-> {}, path |-> "send_to_room"]
             ELSE [st |-> st, emits |-> {}, path |-> "none"]
        ELSE IF message_type = "broadcast"
        THEN [st |-> st, emits |-> BroadcastAll(message), path |-> "broadcast_all"]
        ELSE [st |-> st, emits |-> {}, path |-> "none"]

RECURSIVE DeliverLoop(_, _, _, _, _)
\* for msg in messages: send_to_user(user_id, msg['content']); mark_delivered(msg['id'])
DeliverLoop(st, user_id, msgs, i, t) ==
    IF i > Len(msgs) THEN st
    ELSE LET s1 == SendToUser(st, user_id, msgs[i].content, t)
             s2 == [s1 EXCEPT !.db.rows = MarkDelivered(@, msgs[i].id, t)]
         IN  DeliverLoop(s2, user_id, msgs, i + 1, t)

DeliverQueuedMessages(st, user_id, t) ==
    LET msgs == GetUndeliveredMessages(st.db.rows, user_id)
    IN  IF Len(msgs) > 0 THEN DeliverLoop(st, user_id, msgs, 1, t) ELSE st

HubState == [cm |-> CM, db |-> DB, sends |-> <<>>]

(* ------------------------------ initial state -------------------------- *)
Init ==
    /\ connections = EmptyDict
    /\ user_connections = EmptyDict
    /\ pool = EmptyDict
    /\ messages = <<>>
    /\ lastId = 0
    /\ now = 0
    /\ presence = EmptyDict
    /\ message_count = 0
    /\ sessions = [sid \in Sessions |-> "new"]
    /\ uuids = 0
    /\ rooms = EmptyDict
    /\ room_members = {}
    /\ queues = [u \in Users |-> <<>>]
    /\ threads = [t \in Threads |-> Idle]
    /\ last = [op |-> "init"]

(* ---------------- SpecPool: the ConnectionPool driven directly ---------- *)
PoolAdd(u, c) ==
    LET r == PoolAddConnection(pool, u, c)
    IN  /\ pool' = r[1]
        /\ last' = [op |-> "pool_add", user |-> u, conn |-> c, ret |-> r[2], pre |-> pool]
        /\ UNCHANGED <<connections, user_connections, messages, lastId, now, queues, roomVars, hubVars, threads>>

PoolRemove(u, c) ==
    /\ pool' = PoolRemoveConnection(pool, u, c)
    /\ last' = [op |-> "pool_remove", user |-> u, conn |-> c, ret |-> None, pre |-> pool]
    /\ UNCHANGED <<connections, user_connections, messages, lastId, now, queues, roomVars, hubVars, threads>>

NextPool ==
    \/ \E u \in Users, c \in ConnIds :
          /\ TotalEntries(pool) < MaxEntries \/ ~CanAddConnection(pool, u)
          /\ PoolAdd(u, c)
    \/ \E u \in Users, c \in ConnIds : PoolRemove(u, c)

SpecPool == Init /\ [][NextPool]_vars

(* ------------- SpecCM: the ConnectionManager driven directly ------------ *)
CMAdd(c, u, sid) ==
    LET cm == CMAddConnection(CM, c, u, sid)
    IN  /\ connections' = cm.conns
        /\ user_connections' = cm.by_user
        /\ last' = [op |-> "cm_add", conn |-> c, user |-> u]
        /\ UNCHANGED <<pool, messages, lastId, now, queues, roomVars, hubVars, threads>>

CMRemove(c) ==
    LET cm == CMRemoveConnection(CM, c)
    IN  /\ connections' = cm.conns
        /\ user_connections' = cm.by_user
        /\ last' = [op |-> "cm_remove", conn |-> c,
                     user |-> IF c \in DOMAIN connections
                              THEN connections[c].user_id ELSE None]
        /\ UNCHANGED <<pool, messages, lastId, now, queues, roomVars, hubVars, threads>>

NextCM ==
    \/ \E c \in ConnIds, u \in Users :
          /\ TotalEntries(user_connections) < MaxEntries
          /\ CMAdd(c, u, c)
    \/ \E c \in ConnIds : CMRemove(c)

SpecCM == Init /\ [][NextCM]_vars

(* ----------------------------- the wall clock -------------------------- *)
\* CURRENT_TIMESTAMP has one-second resolution and follows the system clock,
\* which can be stepped in either direction.
ClockStep ==
    /\ \E t \in 0..MaxClock : t /= now /\ now' = t
    /\ UNCHANGED <<connections, user_connections, pool, messages, lastId, hubVars,
                   roomVars, queues, threads, last>>

(* -------- SpecQueueSeq: OfflineQueue calls, one at a time -------------- *)
QAddMessage(u, sender) ==
    /\ lastId < MaxRows
    /\ LET count == CountUndelivered(messages, u)
           r == AddMessageWrite(DB, u, [text |-> "hello"], sender, count, now)
       IN  /\ messages' = r[1].rows
           /\ lastId' = r[1].seq
           /\ last' = [op |-> "add_message", user |-> u, ret |-> r[2],
                       count |-> count, pre |-> messages]
    /\ UNCHANGED <<connections, user_connections, pool, now, queues, roomVars, hubVars, threads>>

QMarkDelivered(id) ==
    /\ messages' = MarkDelivered(messages, id, now)
    /\ last' = [op |-> "mark_delivered", id |-> id,
                 pre |-> SelectSeq(messages, LAMBDA r : r.id = id)]
    /\ UNCHANGED <<connections, user_connections, pool, lastId, now, queues, roomVars, hubVars, threads>>

QGetMessages(u) ==
    /\ LET ret == GetMessages(messages, u)
       IN  last' = [op |-> "get_messages", user |-> u,
                    ret |-> [i \in 1..Len(ret) |-> ret[i].id]]
    /\ UNCHANGED <<connections, user_connections, pool, messages, lastId, now, queues, roomVars, hubVars, threads>>

QGetUndeliveredMessages(u) ==
    /\ LET ret == GetUndeliveredMessages(messages, u)
       IN  last' = [op |-> "get_undelivered_messages", user |-> u,
                    ret |-> [i \in 1..Len(ret) |-> ret[i].id]]
    /\ UNCHANGED <<connections, user_connections, pool, messages, lastId, now, queues, roomVars, hubVars, threads>>

NextQueueSeq ==
    \/ \E u \in Users : QAddMessage(u, None)
    \/ \E id \in 1..(MaxRows + 1) : QMarkDelivered(id)
    \/ \E u \in Users : QGetMessages(u)
    \/ \E u \in Users : QGetUndeliveredMessages(u)
    \/ ClockStep

SpecQueueSeq == Init /\ [][NextQueueSeq]_vars

(* -- SpecIds: the calls that insert into and delete from table messages --- *)
\* last.ids lists the ids returned by add_message and save_message so far.
Ids == IF "ids" \in DOMAIN last THEN last.ids ELSE <<>>

IAddMessage(u) ==
    /\ lastId < MaxRows
    /\ LET r == AddMessageWrite(DB, u, [text |-> "hello"], None,
                                CountUndelivered(messages, u), now)
       IN  /\ messages' = r[1].rows
           /\ lastId' = r[1].seq
           /\ last' = [op |-> "add_message", ret |-> r[2], ids |-> Append(Ids, r[2])]
    /\ UNCHANGED <<connections, user_connections, pool, now, queues, roomVars, hubVars, threads>>

ISaveMessage(u) ==
    /\ lastId < MaxRows
    /\ LET r == SaveMessage(DB, None, u, None, "direct", [text |-> "hello"], now)
       IN  /\ messages' = r[1].rows
           /\ lastId' = r[1].seq
           /\ last' = [op |-> "save_message", ret |-> r[2], ids |-> Append(Ids, r[2])]
    /\ UNCHANGED <<connections, user_connections, pool, now, queues, roomVars, hubVars, threads>>

IDeleteOldMessages(days) ==
    /\ messages' = DeleteOldMessages(messages, days, now)
    /\ last' = [op |-> "delete_old_messages",
                ret |-> Len(messages) - Len(messages'), ids |-> Ids]
    /\ UNCHANGED <<connections, user_connections, pool, lastId, now, queues, roomVars, hubVars,
                   threads>>

NextIds ==
    \/ IAddMessage(1)
    \/ ISaveMessage(1)
    \/ \E days \in 0..MaxClock : IDeleteOldMessages(days)
    \/ ClockStep

SpecIds == Init /\ [][NextIds]_vars

(* -- SpecMQ: the in-memory MessageQueue driven directly -------------------- *)
Payloads == {"a", "b"}

MQEnqueue(u, m) ==
    /\ queues' = Enqueue(queues, u, m)
    /\ last' = [op |-> "enqueue", user |-> u, msg |-> m, ret |-> <<>>,
                full |-> QueueSize(queues, u) = MaxSize]
    /\ UNCHANGED <<connections, user_connections, pool, messages, lastId, now, roomVars,
                   hubVars, threads>>

MQDequeue(u) ==
    /\ queues' = Dequeue(queues, u)[1]
    /\ last' = [op |-> "dequeue", user |-> u, msg |-> "", ret |-> Dequeue(queues, u)[2],
                full |-> QueueSize(queues, u) = MaxSize]
    /\ UNCHANGED <<connections, user_connections, pool, messages, lastId, now, roomVars,
                   hubVars, threads>>

MQDequeueAll(u) ==
    /\ queues' = DequeueAll(queues, u)[1]
    /\ last' = [op |-> "dequeue_all", user |-> u, msg |-> "",
                ret |-> DequeueAll(queues, u)[2],
                full |-> QueueSize(queues, u) = MaxSize]
    /\ UNCHANGED <<connections, user_connections, pool, messages, lastId, now, roomVars,
                   hubVars, threads>>

MQClearQueue(u) ==
    /\ queues' = ClearQueue(queues, u)
    /\ last' = [op |-> "clear_queue", user |-> u, msg |-> "", ret |-> <<>>,
                full |-> QueueSize(queues, u) = MaxSize]
    /\ UNCHANGED <<connections, user_connections, pool, messages, lastId, now, roomVars,
                   hubVars, threads>>

NextMQ ==
    \/ \E u \in Users, m \in Payloads : MQEnqueue(u, m)
    \/ \E u \in Users : MQDequeue(u)
    \/ \E u \in Users : MQDequeueAll(u)
    \/ \E u \in Users : MQClearQueue(u)

SpecMQ == Init /\ [][NextMQ]_vars

(* ---- SpecQueue: add_message calls whose COUNT and write interleave ----- *)
\* add_message, first statement: SELECT COUNT(*) (no transaction is open yet)
AMCount(t, u) ==
    /\ threads[t].pc = "idle"
    /\ lastId + Cardinality({x \in Threads : threads[x].pc = "am_counted"}) < MaxRows
    /\ threads' = [threads EXCEPT ![t] =
                     [pc |-> "am_counted", user |-> u,
                      count |-> CountUndelivered(messages, u)]]
    /\ UNCHANGED <<connections, user_connections, pool, messages, lastId, now, queues, roomVars, hubVars, last>>

\* add_message, the write transaction: DELETE (if count >= max), INSERT, commit
AMWrite(t) ==
    /\ threads[t].pc = "am_counted"
    /\ LET u == threads[t].user
           count == threads[t].count
           r == AddMessageWrite(DB, u, [text |-> "hello"], None, count, now)
       IN  /\ messages' = r[1].rows
           /\ lastId' = r[1].seq
           /\ last' = [op |-> "add_message", user |-> u, ret |-> r[2]]
    /\ threads' = [threads EXCEPT ![t] = Idle]
    /\ UNCHANGED <<connections, user_connections, pool, now, queues, roomVars, hubVars>>

QMarkDeliveredC(id) ==
    /\ messages' = MarkDelivered(messages, id, now)
    /\ last' = [op |-> "mark_delivered", id |-> id]
    /\ UNCHANGED <<connections, user_connections, pool, lastId, now, queues, roomVars, hubVars, threads>>

NextQueue ==
    \/ \E t \in Threads, u \in Users : AMCount(t, u)
    \/ \E t \in Threads : AMWrite(t)
    \/ \E id \in 1..(MaxRows + 1) : QMarkDeliveredC(id)
    \/ ClockStep

SpecQueue == Init /\ [][NextQueue]_vars

(* ------ SpecHub: the event handlers of app.py, one at a time ----------- *)
\* the transport opens a session; handle_connect only greets it
HConnect(sid) ==
    /\ sessions[sid] = "new"
    /\ sessions' = [sessions EXCEPT ![sid] = "open"]
    /\ last' = [op |-> "connect", ret |-> "connected", sends |-> <<>>]
    /\ UNCHANGED <<connections, user_connections, pool, messages, lastId, now, queues, roomVars,
                   presence, message_count, uuids, threads>>

\* handle_register, data = {user_id: u} (u = None: no user_id given)
HRegister(sid, u) ==
    /\ sessions[sid] = "open"
    /\ IF u = None
       THEN /\ last' = [op |-> "register", ret |-> "error", sends |-> <<>>]
            /\ UNCHANGED <<connections, user_connections, pool, messages, lastId,
                           presence, uuids>>
       ELSE IF ~CanAddConnection(pool, u)
       THEN /\ last' = [op |-> "register", ret |-> "limit", sends |-> <<>>]
            /\ UNCHANGED <<connections, user_connections, pool, messages, lastId,
                           presence, uuids>>
       ELSE /\ uuids + message_count < MaxAccepted
            /\ LET connection_id == uuids + 1
                   cm1 == CMAddConnection(CM, connection_id, u, sid)
                   st  == DeliverQueuedMessages([HubState EXCEPT !.cm = cm1], u, now)
               IN  /\ uuids' = uuids + 1
                   /\ connections' = cm1.conns
                   /\ user_connections' = cm1.by_user
                   /\ pool' = PoolAddConnection(pool, u, connection_id)[1]
                   /\ presence' = SetState(presence, u, "online")
                   /\ messages' = st.db.rows
                   /\ lastId' = st.db.seq
                   /\ last' = [op |-> "register", ret |-> "registered",
                               sends |-> st.sends]
    /\ UNCHANGED <<now, queues, roomVars, message_count, sessions, threads>>

\* the first connection of connections.items() whose sid is the session's
\* (insertion order is the order the ids were drawn), as a set
FirstConnOfSid(conns, sid) ==
    LET cs == { c \in DOMAIN conns : conns[c].sid = sid }
    IN  IF cs = {} THEN {} ELSE { CHOOSE c \in cs : \A d \in cs : c <= d }

\* handle_disconnect of session sid, less what becomes of the handlers in progress
DisconnectSession(sid) ==
    /\ sessions[sid] = "open"
    /\ sessions' = [sessions EXCEPT ![sid] = "closed"]
    /\ IF FirstConnOfSid(connections, sid) = {}
       THEN UNCHANGED <<connections, user_connections, pool, presence>>
       ELSE LET conn_id == CHOOSE c \in FirstConnOfSid(connections, sid) : TRUE
                user_id == connections[conn_id].user_id
                cm1 == CMRemoveConnection(CM, conn_id)
            IN  /\ connections' = cm1.conns
                /\ user_connections' = cm1.by_user
                /\ pool' = PoolRemoveConnection(pool, user_id, conn_id)
                /\ presence' = IF ~IsUserOnline(cm1, user_id)
                               THEN SetState(presence, user_id, "offline")
                               ELSE presence
    /\ last' = [op |-> "disconnect", ret |-> "none", sends |-> <<>>]
    /\ UNCHANGED <<messages, lastId, now, queues, roomVars, message_count, uuids>>

HDisconnect(sid) == DisconnectSession(sid) /\ UNCHANGED threads

\* handle_message, data = {sender_id, recipient_id, content}, received from
\* some open session
HMessage(data, cap) ==
    /\ \E sid \in Sessions : sessions[sid] = "open"
    /\ IF data.sender_id = None \/ data.content = ""
       THEN /\ last' = [op |-> "message", ret |-> "error", sends |-> <<>>]
            /\ UNCHANGED <<messages, lastId, message_count>>
       ELSE /\ uuids + message_count < cap
            /\ LET message == ProcessMessage(message_count, data, data.sender_id)
                   st == IF data.recipient_id /= None
                         THEN SendToUser(HubState, data.recipient_id, message, now)
                         ELSE HubState
               IN  /\ message_count' = message_count + 1
                   /\ messages' = st.db.rows
                   /\ lastId' = st.db.seq
                   /\ last' = [op |-> "message", ret |-> "message_sent",
                               sends |-> st.sends]
    /\ UNCHANGED <<connections, user_connections, pool, now, queues, roomVars, presence, sessions,
                   uuids, threads>>

\* the payloads a client sends: sender missing or user 1, any recipient or
\* none, content empty or not
Contents == {"", "hi"}
Senders == {None, 1}
MessageData == [sender_id : Senders, recipient_id : {None} \cup Users,
                content : Contents]

NextHub ==
    \/ \E sid \in Sessions : HConnect(sid)
    \/ \E sid \in Sessions, u \in {None} \cup Users : HRegister(sid, u)
    \/ \E sid \in Sessions : HDisconnect(sid)
    \/ \E data \in MessageData : HMessage(data, MaxAccepted)

SpecHub == Init /\ [][NextHub]_vars

(* -- SpecHubOffline: messages routed while nobody ever registers -------- *)
NextHubOffline ==
    \/ \E sid \in Sessions : HConnect(sid)
    \/ \E data \in MessageData : HMessage(data, MaxRows)

SpecHubOffline == Init /\ [][NextHubOffline]_vars

(* -- SpecHubDrain: the handlers one at a time, while the clock moves ------ *)
NextHubDrain ==
    \/ \E sid \in Sessions : HConnect(sid)
    \/ \E sid \in Sessions, u \in {None} \cup Users : HRegister(sid, u)
    \/ \E sid \in Sessions : HDisconnect(sid)
    \/ \E data \in MessageData : HMessage(data, MaxAccepted)
    \/ ClockStep

SpecHubDrain == Init /\ [][NextHubDrain]_vars

(* -- SpecHubGroup: direct and room messages, handlers one at a time ------- *)
\* handle_room_message, data = {room_id, sender_id, content}
HRoomMessage(data) ==
    /\ \E sid \in Sessions : sessions[sid] = "open"
    /\ IF data.room_id = None \/ data.sender_id = None \/ data.content = ""
       THEN /\ last' = [op |-> "room_message", ret |-> "error", sends |-> <<>>]
            /\ UNCHANGED <<messages, lastId, message_count>>
       ELSE /\ uuids + message_count < MaxAccepted
            /\ LET message == ProcessMessage(message_count, data, data.sender_id)
                   st == SendToRoom(HubState, data.room_id, message, now)
               IN  /\ message_count' = message_count + 1
                   /\ messages' = st.db.rows
                   /\ lastId' = st.db.seq
                   /\ last' = [op |-> "room_message", ret |-> "message_sent",
                               sends |-> st.sends]
    /\ UNCHANGED <<connections, user_connections, pool, now, queues, roomVars, presence, sessions,
                   uuids, threads>>

\* the payloads of this specification: user 1 writes to room 1 (or names no
\* room) and to themself
RoomMessageData == [room_id : {None, 1}, sender_id : {1}, content : {"hi"}]
DirectData == [sender_id : {1}, recipient_id : {1}, content : {"hi"}]

NextHubGroup ==
    \/ \E sid \in Sessions : HConnect(sid)
    \/ \E sid \in Sessions, u \in Users : HRegister(sid, u)
    \/ \E sid \in Sessions : HDisconnect(sid)
    \/ \E data \in DirectData : HMessage(data, MaxAccepted)
    \/ \E data \in RoomMessageData : HRoomMessage(data)

SpecHubGroup == Init /\ [][NextHubGroup]_vars

(* -- SpecBroadcast: broadcasts among sessions that come, register and go -- *)
\* handle_broadcast, data = {sender_id, content}
HBroadcast(data) ==
    /\ \E sid \in Sessions : sessions[sid] = "open"
    /\ IF data.sender_id = None \/ data.content = ""
       THEN /\ last' = [op |-> "broadcast", ret |-> "error", exclude |-> None,
                        emits |-> {}, sends |-> <<>>]
            /\ UNCHANGED message_count
       ELSE /\ uuids + message_count < MaxAccepted
            /\ LET message == ProcessMessage(message_count, data, data.sender_id)
               IN  /\ message_count' = message_count + 1
                   /\ last' = [op |-> "broadcast", ret |-> "broadcast_sent",
                               exclude |-> None, emits |-> BroadcastAll(message),
                               sends |-> <<>>]
    /\ UNCHANGED <<connections, user_connections, pool, messages, lastId, now, queues, roomVars,
                   presence, sessions, uuids, threads>>

\* BroadcastManager.broadcast_to_all(message, exclude_user) called on the
\* registry of the running hub
BMBroadcastToAll(message, exclude_user) ==
    /\ last' = [op |-> "broadcast_to_all", ret |-> "broadcast_sent",
                exclude |-> exclude_user,
                emits |-> BroadcastToAll(CM, message, exclude_user), sends |-> <<>>]
    /\ UNCHANGED <<connections, user_connections, pool, messages, lastId, now, queues, roomVars,
                   hubVars, threads>>

BroadcastData == [sender_id : Senders, content : Contents]
Notice == [content |-> "notice", type |-> "notification"]

NextBroadcast ==
    \/ \E sid \in Sessions : HConnect(sid)
    \/ \E sid \in Sessions, u \in Users : HRegister(sid, u)
    \/ \E sid \in Sessions : HDisconnect(sid)
    \/ \E data \in BroadcastData : HBroadcast(data)
    \/ \E u \in {None} \cup Users : BMBroadcastToAll(Notice, u)

SpecBroadcast == Init /\ [][NextBroadcast]_vars

(* -- SpecHubTyped: the three inbound paths, payloads that carry a type ---- *)
\* an allowed type and one that validate_message refuses
Types == {"image", "video"}
TypedMessageData == [sender_id : {1}, recipient_id : Users, content : Contents,
                     type : Types]
TypedRoomData == [room_id : {1}, sender_id : {1}, content : Contents, type : Types]
TypedBroadcastData == [sender_id : {1}, content : Contents, type : Types]

NextHubTyped ==
    \/ \E sid \in Sessions : HConnect(sid)
    \/ \E sid \in Sessions, u \in Users : HRegister(sid, u)
    \/ \E data \in TypedMessageData : HMessage(data, MaxAccepted)
    \/ \E data \in TypedRoomData : HRoomMessage(data)
    \/ \E data \in TypedBroadcastData : HBroadcast(data)

SpecHubTyped == Init /\ [][NextHubTyped]_vars

(* -- SpecState: ConnectionState driven directly -------------------------- *)
\* last.latest records, per user, the state of the latest set_state call
\* ("none" before the first), and last.prev what the call replaced.
Latest == IF "latest" \in DOMAIN last THEN last.latest ELSE [u \in Users |-> "none"]

SSetState(user_id, state) ==
    /\ presence' = SetState(presence, user_id, state)
    /\ last' = [op |-> "set_state", user |-> user_id, ret |-> {},
                prev |-> Latest[user_id],
                latest |-> [Latest EXCEPT ![user_id] = state]]
    /\ UNCHANGED <<connections, user_connections, pool, messages, lastId, now, queues, roomVars,
                   message_count, sessions, uuids, threads>>

SGetState(user_id) ==
    /\ last' = [op |-> "get_state", user |-> user_id,
                ret |-> { r.state : r \in GetState(presence, user_id) },
                prev |-> "none", latest |-> Latest]
    /\ UNCHANGED <<connections, user_connections, pool, messages, lastId, now, queues, roomVars,
                   hubVars, threads>>

SGetOnlineUsers ==
    /\ last' = [op |-> "get_online_users", user |-> None,
                ret |-> StateOnlineUsers(presence),
                prev |-> "none", latest |-> Latest]
    /\ UNCHANGED <<connections, user_connections, pool, messages, lastId, now, queues, roomVars,
                   hubVars, threads>>

NextState ==
    \/ \E u \in Users, state \in States : SSetState(u, state)
    \/ \E u \in Users : SGetState(u)
    \/ SGetOnlineUsers

SpecState == Init /\ [][NextState]_vars

(* -- SpecRouter: raw messages processed and handed to the MessageRouter ---- *)
\* the raw messages: content always there, a type of the validator, a type of
\* the router or none, and a recipient, a room or neither
RouterTypes == {"text", "direct", "room", "broadcast"}
RouterData ==
    [content : {"hi"}] \cup [content : {"hi"}, type : RouterTypes]
      \cup [content : {"hi"}, recipient_id : {1}]
      \cup [content : {"hi"}, type : RouterTypes, recipient_id : {1}]
      \cup [content : {"hi"}, room_id : {1}]
      \cup [content : {"hi"}, type : RouterTypes, room_id : {1}]

\* route_message(process_message(raw, 1))
RRouteMessage(raw) ==
    /\ uuids + message_count < MaxAccepted
    /\ LET message == ProcessMessage(message_count, raw, 1)
           r == RouteMessage(HubState, message, now)
       IN  /\ message_count' = message_count + 1
           /\ messages' = r.st.db.rows
           /\ lastId' = r.st.db.seq
           /\ last' = [op |-> "route_message", ret |-> r.path,
                       valid |-> ValidateMessage(raw),
                       target |-> IF "recipient_id" \in DOMAIN raw THEN "user"
                                  ELSE IF "room_id" \in DOMAIN raw THEN "room"
                                  ELSE "all",
                       sends |-> r.st.sends, emits |-> r.emits]
    /\ UNCHANGED <<connections, user_connections, pool, now, queues, roomVars, presence, sessions,
                   uuids, threads>>

NextRouter ==
    \/ \E sid \in Sessions : HConnect(sid)
    \/ \E sid \in Sessions, u \in Users : HRegister(sid, u)
    \/ \E sid \in Sessions : HDisconnect(sid)
    \/ \E raw \in RouterData : RRouteMessage(raw)

SpecRouter == Init /\ [][NextRouter]_vars

(* -- SpecHubRace: handlers whose steps interleave (one thread per event) -- *)
\* A handler in progress is a record of threads; Busy counts them.
Busy == Cardinality({ t \in Threads : threads[t].pc /= "idle" })

\* handle_register up to and including the can_add_connection check
RegCheck(t, sid, u) ==
    /\ threads[t].pc = "idle"
    /\ sessions[sid] = "open"
    /\ IF u = None
       THEN /\ last' = [op |-> "register", ret |-> "error", sends |-> <<>>]
            /\ UNCHANGED threads
       ELSE IF ~CanAddConnection(pool, u)
       THEN /\ last' = [op |-> "register", ret |-> "limit", sends |-> <<>>]
            /\ UNCHANGED threads
       ELSE /\ uuids + message_count + Busy < MaxAccepted
            /\ threads' = [threads EXCEPT ![t] =
                             [pc |-> "reg_admitted", user |-> u, sid |-> sid]]
            /\ UNCHANGED last
    /\ UNCHANGED <<connections, user_connections, pool, messages, lastId, now, queues, roomVars, hubVars>>

\* handle_register from uuid4() on: both registries, presence, queued messages
RegInsert(t) ==
    /\ threads[t].pc = "reg_admitted"
    /\ LET u == threads[t].user
           connection_id == uuids + 1
           cm1 == CMAddConnection(CM, connection_id, u, threads[t].sid)
           st  == DeliverQueuedMessages([HubState EXCEPT !.cm = cm1], u, now)
       IN  /\ uuids' = uuids + 1
           /\ connections' = cm1.conns
           /\ user_connections' = cm1.by_user
           /\ pool' = PoolAddConnection(pool, u, connection_id)[1]
           /\ presence' = SetState(presence, u, "online")
           /\ messages' = st.db.rows
           /\ lastId' = st.db.seq
           /\ last' = [op |-> "register", ret |-> "registered", sends |-> st.sends]
    /\ threads' = [threads EXCEPT ![t] = Idle]
    /\ UNCHANGED <<now, queues, roomVars, message_count, sessions>>

\* A send_to_user in progress holds the list object get_user_connections
\* returned: the user's own list while the registry keeps it (attached), and a
\* list nobody else refers to, emptied by then, once remove_connection has
\* deleted the user's key.
ListOf(th) == IF th.attached THEN user_connections[th.user] ELSE <<>>

\* handle_message down to `if connection_ids:` of send_to_user, and the else
\* branch (save_message) when the list is empty
SendRead(t, data) ==
    /\ threads[t].pc = "idle"
    /\ \E sid \in Sessions : sessions[sid] = "open"
    /\ data.sender_id /= None /\ data.content /= "" /\ data.recipient_id /= None
    /\ uuids + message_count + Busy < MaxAccepted
    /\ message_count' = message_count + 1
    /\ LET message == ProcessMessage(message_count, data, data.sender_id)
           r == data.recipient_id
       IN  IF Len(GetUserConnections(CM, r)) > 0
           THEN /\ threads' = [threads EXCEPT ![t] =
                                 [pc |-> "send_loop", user |-> r, msg |-> message,
                                  attached |-> TRUE, i |-> 0, emitted |-> <<>>]]
                /\ UNCHANGED <<messages, lastId, last>>
           ELSE LET st == SendToUser(HubState, r, message, now)
                IN  /\ messages' = st.db.rows
                    /\ lastId' = st.db.seq
                    /\ last' = [op |-> "send_done", user |-> r, emitted |-> <<>>,
                                stored |-> st.sends[1].stored]
                    /\ UNCHANGED threads
    /\ UNCHANGED <<connections, user_connections, pool, now, queues, roomVars, presence, sessions, uuids>>

\* one turn of `for conn_id in connection_ids:` with its get_connection call;
\* the loop ends when the index has reached the current length of the list
SendLookup(t) ==
    /\ threads[t].pc = "send_loop"
    /\ LET th == threads[t]
           lst == ListOf(th)
       IN  IF th.i >= Len(lst)
           THEN /\ threads' = [threads EXCEPT ![t] = Idle]
                /\ last' = [op |-> "send_done", user |-> th.user,
                            emitted |-> th.emitted, stored |-> {}]
           ELSE LET conn_id == lst[th.i + 1]
                IN  /\ threads' = [threads EXCEPT ![t] =
                                     IF conn_id \in DOMAIN connections
                                     THEN [pc |-> "send_emit", user |-> th.user,
                                           msg |-> th.msg, attached |-> th.attached,
                                           i |-> th.i + 1, emitted |-> th.emitted,
                                           conn |-> conn_id,
                                           sid |-> GetConnection(CM, conn_id).sid]
                                     ELSE [th EXCEPT !.i = th.i + 1]]
                    /\ UNCHANGED last
    /\ UNCHANGED <<connections, user_connections, pool, messages, lastId, now, queues, roomVars, hubVars>>

\* socketio.emit('message', message, room=conn_info['sid']); live records
\* whether the registry still holds the connection and its session is connected
SendEmit(t) ==
    /\ threads[t].pc = "send_emit"
    /\ LET th == threads[t]
           e == [conn |-> th.conn, room |-> th.sid,
                 live |-> th.conn \in DOMAIN connections /\ sessions[th.sid] = "open"]
       IN  threads' = [threads EXCEPT ![t] =
                         [pc |-> "send_loop", user |-> th.user, msg |-> th.msg,
                          attached |-> th.attached, i |-> th.i,
                          emitted |-> Append(th.emitted, e)]]
    /\ UNCHANGED <<connections, user_connections, pool, messages, lastId, now, queues, roomVars, hubVars, last>>

\* handle_disconnect while sends are in progress: a list whose key was deleted
\* stays with the send that holds it
RDisconnect(sid) ==
    /\ DisconnectSession(sid)
    /\ threads' = [t \in Threads |->
                     IF /\ threads[t].pc \in {"send_loop", "send_emit"}
                        /\ threads[t].attached
                        /\ threads[t].user \notin DOMAIN user_connections'
                     THEN [threads[t] EXCEPT !.attached = FALSE]
                     ELSE threads[t]]

NextHubRace ==
    \/ \E sid \in Sessions : HConnect(sid)
    \/ \E t \in Threads, sid \in Sessions, u \in {None} \cup Users : RegCheck(t, sid, u)
    \/ \E t \in Threads : RegInsert(t)
    \/ \E t \in Threads, data \in MessageData : SendRead(t, data)
    \/ \E t \in Threads : SendLookup(t)
    \/ \E t \in Threads : SendEmit(t)
    \/ \E sid \in Sessions : RDisconnect(sid)

SpecHubRace == Init /\ [][NextHubRace]_vars

(* -- SpecHandlerRace: process_message calls on threads, statement by ------- *)
(* -- statement ------------------------------------------------------------- *)
\* last.returned lists the ids returned so far, in the order of the returns.
Returned == IF "returned" \in DOMAIN last THEN last.returned ELSE <<>>

\* self.message_count += 1, the read of the attribute
PMLoad(t, sender_id) ==
    /\ threads[t].pc = "idle"
    /\ Len(Returned) + Busy < MaxAccepted
    /\ threads' = [threads EXCEPT ![t] =
                     [pc |-> "pm_loaded", sender |-> sender_id, count |-> message_count]]
    /\ UNCHANGED <<connections, user_connections, pool, messages, lastId, now, queues, roomVars,
                   hubVars, last>>

\* self.message_count += 1, the write of the sum
PMStore(t) ==
    /\ threads[t].pc = "pm_loaded"
    /\ message_count' = threads[t].count + 1
    /\ threads' = [threads EXCEPT ![t] = [pc |-> "pm_stored", sender |-> threads[t].sender]]
    /\ UNCHANGED <<connections, user_connections, pool, messages, lastId, now, queues, roomVars,
                   presence, sessions, uuids, last>>

\* processed = {'id': self.message_count, 'sender_id': sender_id, ...}; return
PMReturn(t) ==
    /\ threads[t].pc = "pm_stored"
    /\ LET processed == ProcessMessage(message_count - 1, [content |-> "hi"],
                                       threads[t].sender)
       IN  last' = [op |-> "process_message", sender |-> threads[t].sender,
                    ret |-> processed, returned |-> Append(Returned, processed.id)]
    /\ threads' = [threads EXCEPT ![t] = Idle]
    /\ UNCHANGED <<connections, user_connections, pool, messages, lastId, now, queues, roomVars,
                   hubVars>>

NextHandlerRace ==
    \/ \E t \in Threads, u \in Users : PMLoad(t, u)
    \/ \E t \in Threads : PMStore(t)
    \/ \E t \in Threads : PMReturn(t)

SpecHandlerRace == Init /\ [][NextHandlerRace]_vars

(* -- SpecConnectRace: a message routed while its recipient registers ------- *)
\* handle_message down to `if connection_ids:` of send_to_user, and the loop of
\* emits when the list is not empty
CSendRead(t, data) ==
    /\ threads[t].pc = "idle"
    /\ \E sid \in Sessions : sessions[sid] = "open"
    /\ uuids + message_count + Busy < MaxAccepted
    /\ message_count' = message_count + 1
    /\ LET message == ProcessMessage(message_count, data, data.sender_id)
           r == data.recipient_id
       IN  IF Len(GetUserConnections(CM, r)) > 0
           THEN /\ last' = [op |-> "message", ret |-> "message_sent",
                            sends |-> SendToUser(HubState, r, message, now).sends]
                /\ UNCHANGED threads
           ELSE /\ threads' = [threads EXCEPT ![t] =
                                 [pc |-> "send_offline", user |-> r, msg |-> message]]
                /\ UNCHANGED last
    /\ UNCHANGED <<connections, user_connections, pool, messages, lastId, now, queues, roomVars,
                   presence, sessions, uuids>>

\* the else branch of send_to_user: save_message
CSendSave(t) ==
    /\ threads[t].pc = "send_offline"
    /\ LET th == threads[t]
           r == SaveMessage(DB, MsgGet(th.msg, "sender_id"), th.user, None, "direct",
                            th.msg, now)
       IN  /\ messages' = r[1].rows
           /\ lastId' = r[1].seq
           /\ last' = [op |-> "message", ret |-> "message_sent",
                       sends |-> <<[user |-> th.user, emitted |-> <<>>,
                                    stored |-> {r[2]}]>>]
    /\ threads' = [threads EXCEPT ![t] = Idle]
    /\ UNCHANGED <<connections, user_connections, pool, now, queues, roomVars, hubVars>>

\* handle_register while sends are in progress
CRegister(sid, u) ==
    /\ uuids + message_count + Busy < MaxAccepted \/ ~CanAddConnection(pool, u)
    /\ HRegister(sid, u)

NextConnectRace ==
    \/ \E sid \in Sessions : HConnect(sid)
    \/ \E sid \in Sessions, u \in Users : CRegister(sid, u)
    \/ \E sid \in Sessions : HDisconnect(sid)
    \/ \E t \in Threads, data \in DirectData : CSendRead(t, data)
    \/ \E t \in Threads : CSendSave(t)

SpecConnectRace == Init /\ [][NextConnectRace]_vars

(* -- SpecPresenceRace: register and disconnect handlers whose registry ---- *)
(* -- step and presence step interleave ------------------------------------ *)
\* handle_register down to connection_pool.add_connection
PRegAdd(t, sid, u) ==
    /\ threads[t].pc = "idle"
    /\ sessions[sid] = "open"
    /\ CanAddConnection(pool, u)
    /\ uuids + Busy < MaxAccepted
    /\ LET connection_id == uuids + 1
           cm1 == CMAddConnection(CM, connection_id, u, sid)
       IN  /\ uuids' = uuids + 1
           /\ connections' = cm1.conns
           /\ user_connections' = cm1.by_user
           /\ pool' = PoolAddConnection(pool, u, connection_id)[1]
    /\ threads' = [threads EXCEPT ![t] = [pc |-> "reg_added", user |-> u]]
    /\ UNCHANGED <<messages, lastId, now, queues, roomVars, presence, message_count, sessions, last>>

\* handle_register from set_state(user_id, STATE_ONLINE) on
PRegOnline(t) ==
    /\ threads[t].pc = "reg_added"
    /\ LET u == threads[t].user
           st == DeliverQueuedMessages(HubState, u, now)
       IN  /\ presence' = SetState(presence, u, "online")
           /\ messages' = st.db.rows
           /\ lastId' = st.db.seq
           /\ last' = [op |-> "register", ret |-> "registered", sends |-> st.sends]
    /\ threads' = [threads EXCEPT ![t] = Idle]
    /\ UNCHANGED <<connections, user_connections, pool, now, queues, roomVars, message_count, sessions, uuids>>

\* handle_disconnect down to connection_pool.remove_connection
PDiscRemove(t, sid) ==
    /\ threads[t].pc = "idle"
    /\ sessions[sid] = "open"
    /\ sessions' = [sessions EXCEPT ![sid] = "closed"]
    /\ IF FirstConnOfSid(connections, sid) = {}
       THEN /\ last' = [op |-> "disconnect", ret |-> "none", sends |-> <<>>]
            /\ UNCHANGED <<connections, user_connections, pool, threads>>
       ELSE LET conn_id == CHOOSE c \in FirstConnOfSid(connections, sid) : TRUE
                user_id == connections[conn_id].user_id
                cm1 == CMRemoveConnection(CM, conn_id)
            IN  /\ connections' = cm1.conns
                /\ user_connections' = cm1.by_user
                /\ pool' = PoolRemoveConnection(pool, user_id, conn_id)
                /\ threads' = [threads EXCEPT ![t] =
                                 [pc |-> "disc_removed", user |-> user_id]]
                /\ UNCHANGED last
    /\ UNCHANGED <<messages, lastId, now, queues, roomVars, presence, message_count, uuids>>

\* handle_disconnect: if not is_user_online(user_id): set_state(user_id, STATE_OFFLINE)
PDiscState(t) ==
    /\ threads[t].pc = "disc_removed"
    /\ presence' = IF ~IsUserOnline(CM, threads[t].user)
                   THEN SetState(presence, threads[t].user, "offline")
                   ELSE presence
    /\ last' = [op |-> "disconnect", ret |-> "none", sends |-> <<>>]
    /\ threads' = [threads EXCEPT ![t] = Idle]
    /\ UNCHANGED <<connections, user_connections, pool, messages, lastId, now, queues, roomVars,
                   message_count, sessions, uuids>>

NextPresenceRace ==
    \/ \E sid \in Sessions : HConnect(sid)
    \/ \E t \in Threads, sid \in Sessions, u \in Users : PRegAdd(t, sid, u)
    \/ \E t \in Threads : PRegOnline(t)
    \/ \E t \in Threads, sid \in Sessions : PDiscRemove(t, sid)
    \/ \E t \in Threads : PDiscState(t)

SpecPresenceRace == Init /\ [][NextPresenceRace]_vars

(* -- SpecDrainRace: the same interleavings, with messages queued before --- *)
NextDrainRace ==
    \/ \E sid \in Sessions : HConnect(sid)
    \/ \E data \in MessageData : HMessage(data, MaxAccepted)
    \/ \E t \in Threads, sid \in Sessions, u \in Users : PRegAdd(t, sid, u)
    \/ \E t \in Threads : PRegOnline(t)
    \/ \E t \in Threads, sid \in Sessions : PDiscRemove(t, sid)
    \/ \E t \in Threads : PDiscState(t)

SpecDrainRace == Init /\ [][NextDrainRace]_vars

(* -- SpecDrainPair: register handlers whose deliver_queued_messages -------- *)
(* -- interleave ------------------------------------------------------------ *)
RECURSIVE EmitPairs(_)
\* the emits of a list of send_to_user calls, each as (connection, message id),
\* in the order they were made
EmitPairs(sends) ==
    IF sends = <<>> THEN <<>>
    ELSE [i \in 1..Len(sends[1].emitted) |->
            [conn |-> sends[1].emitted[i].conn, id |-> sends[1].emitted[i].msg.id]]
         \o EmitPairs(Tail(sends))

\* last.log lists the emits made so far by deliver_queued_messages calls.
Log == IF "log" \in DOMAIN last THEN last.log ELSE <<>>

\* handle_register from set_state(user_id, STATE_ONLINE) down to the return of
\* get_undelivered_messages in deliver_queued_messages
DRead(t) ==
    /\ threads[t].pc = "reg_added"
    /\ presence' = SetState(presence, threads[t].user, "online")
    /\ threads' = [threads EXCEPT ![t] =
                     [pc |-> "drain_read", user |-> threads[t].user,
                      msgs |-> GetUndeliveredMessages(messages, threads[t].user)]]
    /\ UNCHANGED <<connections, user_connections, pool, messages, lastId, now, queues, roomVars,
                   message_count, sessions, uuids, last>>

\* deliver_queued_messages: the loop over the list it read
DSend(t) ==
    /\ threads[t].pc = "drain_read"
    /\ LET u == threads[t].user
           st == DeliverLoop(HubState, u, threads[t].msgs, 1, now)
       IN  /\ messages' = st.db.rows
           /\ lastId' = st.db.seq
           /\ last' = [op |-> "register", ret |-> "registered", sends |-> st.sends,
                       log |-> Log \o EmitPairs(st.sends)]
    /\ threads' = [threads EXCEPT ![t] = Idle]
    /\ UNCHANGED <<connections, user_connections, pool, now, queues, roomVars, hubVars>>

\* a message for user 1 routed while no handler is in progress
DMessage(data) ==
    /\ Busy = 0
    /\ HMessage(data, MaxAccepted)

NextDrainPair ==
    \/ \E sid \in Sessions : HConnect(sid)
    \/ \E data \in DirectData : DMessage(data)
    \/ \E t \in Threads, sid \in Sessions, u \in Users : PRegAdd(t, sid, u)
    \/ \E t \in Threads : DRead(t)
    \/ \E t \in Threads : DSend(t)

SpecDrainPair == Init /\ [][NextDrainPair]_vars

(* ------- SpecRooms: RoomManager / RoomStore calls, one at a time -------- *)
\* the rows create_room is called with: every capacity, and one row that
\* differs from the others in every column
CreateArgs ==
    { RoomRow("general", 1, FALSE, m) : m \in 1..MaxMembers }
        \cup { RoomRow("other", 2, TRUE, MaxMembers) }

RCreateRoom(room_id, row) ==
    /\ rooms' = CreateRoom(RS, room_id, row).rooms
    /\ room_members' = CreateRoom(RS, room_id, row).members
    /\ last' = [op |-> "create_room", room |-> room_id, user |-> None, ret |-> TRUE]
    /\ UNCHANGED <<connections, user_connections, pool, messages, lastId, now, queues,
                   hubVars, threads>>

RJoinRoom(room_id, user_id) ==
    /\ LET r == JoinRoom(RS, room_id, user_id)
       IN  /\ rooms' = r[1].rooms
           /\ room_members' = r[1].members
           /\ last' = [op |-> "join_room", room |-> room_id, user |-> user_id,
                       ret |-> r[2]]
    /\ UNCHANGED <<connections, user_connections, pool, messages, lastId, now, queues,
                   hubVars, threads>>

RLeaveRoom(room_id, user_id) ==
    /\ rooms' = LeaveRoom(RS, room_id, user_id).rooms
    /\ room_members' = LeaveRoom(RS, room_id, user_id).members
    /\ last' = [op |-> "leave_room", room |-> room_id, user |-> user_id, ret |-> TRUE]
    /\ UNCHANGED <<connections, user_connections, pool, messages, lastId, now, queues,
                   hubVars, threads>>

RDeleteRoom(room_id) ==
    /\ rooms' = DeleteRoom(RS, room_id).rooms
    /\ room_members' = DeleteRoom(RS, room_id).members
    /\ last' = [op |-> "delete_room", room |-> room_id, user |-> None, ret |-> TRUE]
    /\ UNCHANGED <<connections, user_connections, pool, messages, lastId, now, queues,
                   hubVars, threads>>

NextRooms ==
    \/ \E room_id \in RoomIds, row \in CreateArgs : RCreateRoom(room_id, row)
    \/ \E room_id \in RoomIds, user_id \in Users : RJoinRoom(room_id, user_id)
    \/ \E room_id \in RoomIds, user_id \in Users : RLeaveRoom(room_id, user_id)
    \/ \E room_id \in RoomIds : RDeleteRoom(room_id)

SpecRooms == Init /\ [][NextRooms]_vars

(* -- SpecMembers: create_room, join_room, leave_room and the three readers -- *)
\* last.joined records the pairs (room, user) whose latest membership-changing
\* call was a join_room that returned True.
Joined == IF "joined" \in DOMAIN last THEN last.joined ELSE {}

MCreateRoom(room_id, row) ==
    /\ rooms' = CreateRoom(RS, room_id, row).rooms
    /\ room_members' = CreateRoom(RS, room_id, row).members
    /\ last' = [op |-> "create_room", room |-> room_id, user |-> None, ret |-> {},
                joined |-> Joined]
    /\ UNCHANGED <<connections, user_connections, pool, messages, lastId, now, queues,
                   hubVars, threads>>

MJoinRoom(room_id, user_id) ==
    /\ LET r == JoinRoom(RS, room_id, user_id)
       IN  /\ rooms' = r[1].rooms
           /\ room_members' = r[1].members
           /\ last' = [op |-> "join_room", room |-> room_id, user |-> user_id,
                       ret |-> {r[2]},
                       joined |-> IF r[2]
                                  THEN Joined \cup {[room_id |-> room_id, user_id |-> user_id]}
                                  ELSE Joined]
    /\ UNCHANGED <<connections, user_connections, pool, messages, lastId, now, queues,
                   hubVars, threads>>

MLeaveRoom(room_id, user_id) ==
    /\ rooms' = LeaveRoom(RS, room_id, user_id).rooms
    /\ room_members' = LeaveRoom(RS, room_id, user_id).members
    /\ last' = [op |-> "leave_room", room |-> room_id, user |-> user_id, ret |-> {},
                joined |-> Joined \ {[room_id |-> room_id, user_id |-> user_id]}]
    /\ UNCHANGED <<connections, user_connections, pool, messages, lastId, now, queues,
                   hubVars, threads>>

MGetRoomMembers(room_id) ==
    /\ last' = [op |-> "get_room_members", room |-> room_id, user |-> None,
                ret |-> GetRoomMembers(room_members, room_id), joined |-> Joined]
    /\ UNCHANGED <<connections, user_connections, pool, messages, lastId, now, queues,
                   hubVars, roomVars, threads>>

MGetUserRooms(user_id) ==
    /\ last' = [op |-> "get_user_rooms", room |-> None, user |-> user_id,
                ret |-> GetUserRooms(room_members, user_id), joined |-> Joined]
    /\ UNCHANGED <<connections, user_connections, pool, messages, lastId, now, queues,
                   hubVars, roomVars, threads>>

MGetRoomInfo(room_id) ==
    /\ last' = [op |-> "get_room_info", room |-> room_id, user |-> None,
                ret |-> { i.member_count : i \in GetRoomInfo(RS, room_id) },
                joined |-> Joined]
    /\ UNCHANGED <<connections, user_connections, pool, messages, lastId, now, queues,
                   hubVars, roomVars, threads>>

\* rooms of this specification: one that a single member fills, and the largest
MemberArgs == { RoomRow("general", 1, FALSE, m) : m \in {1, MaxMembers} }

NextMembers ==
    \/ \E room_id \in RoomIds, row \in MemberArgs : MCreateRoom(room_id, row)
    \/ \E room_id \in RoomIds, user_id \in Users : MJoinRoom(room_id, user_id)
    \/ \E room_id \in RoomIds, user_id \in Users : MLeaveRoom(room_id, user_id)
    \/ \E room_id \in RoomIds : MGetRoomMembers(room_id)
    \/ \E user_id \in Users : MGetUserRooms(user_id)
    \/ \E room_id \in RoomIds : MGetRoomInfo(room_id)

SpecMembers == Init /\ [][NextMembers]_vars

(* -- SpecRoomsRace: join_room calls whose SELECTs and INSERT interleave --- *)
\* join_room down to the capacity test: the two SELECTs run outside any
\* transaction
JoinCheck(t, room_id, user_id) ==
    /\ threads[t].pc = "idle"
    /\ IF \/ room_id \notin DOMAIN rooms
          \/ MemberCount(room_members, room_id) >= rooms[room_id].max_members
       THEN /\ last' = [op |-> "join_room", room |-> room_id, user |-> user_id,
                        ret |-> FALSE]
            /\ UNCHANGED threads
       ELSE /\ threads' = [threads EXCEPT ![t] =
                             [pc |-> "join_checked", room |-> room_id, user |-> user_id]]
            /\ UNCHANGED last
    /\ UNCHANGED <<connections, user_connections, pool, messages, lastId, now, queues,
                   hubVars, roomVars>>

\* join_room: the INSERT and its commit
JoinInsert(t) ==
    /\ threads[t].pc = "join_checked"
    /\ room_members' = InsertMember(room_members, threads[t].room, threads[t].user)
    /\ last' = [op |-> "join_room", room |-> threads[t].room, user |-> threads[t].user,
                ret |-> TRUE]
    /\ threads' = [threads EXCEPT ![t] = Idle]
    /\ UNCHANGED <<connections, user_connections, pool, messages, lastId, now, queues,
                   hubVars, rooms>>

NextRoomsRace ==
    \/ \E room_id \in RoomIds, row \in CreateArgs : RCreateRoom(room_id, row)
    \/ \E t \in Threads, room_id \in RoomIds, user_id \in Users :
          JoinCheck(t, room_id, user_id)
    \/ \E t \in Threads : JoinInsert(t)
    \/ \E room_id \in RoomIds, user_id \in Users : RLeaveRoom(room_id, user_id)
    \/ \E room_id \in RoomIds : RDeleteRoom(room_id)

SpecRoomsRace == Init /\ [][NextRoomsRace]_vars

(* =============================== claims ================================ *)
RowIds(rows) == { rows[i].id : i \in 1..Len(rows) }

\* C1: with the handlers run one at a time, every send_to_user(r, m) either
\* emits m to at least one connection of r whose session is still connected and
\* stores nothing, or emits to no such connection and adds exactly one
\* undelivered row for r to the messages table.
LiveEmit(send) ==
    \E i \in 1..Len(send.emitted) : sessions[send.emitted[i].room] = "open"

StoredFor(send) ==
    /\ Cardinality(send.stored) = 1
    /\ \A id \in send.stored :
          \E i \in 1..Len(messages) :
             /\ messages[i].id = id
             /\ messages[i].recipient_id = send.user
             /\ messages[i].delivered = 0

C1_ExactlyOnePath ==
    "sends" \in DOMAIN last =>
        \A k \in 1..Len(last.sends) :
           \/ LiveEmit(last.sends[k]) /\ last.sends[k].stored = {}
           \/ ~LiveEmit(last.sends[k]) /\ StoredFor(last.sends[k])

\* C2: when the steps of send_to_user interleave with register and disconnect
\* handlers, a finished send has either emitted the message to a connection
\* that was live at the time of the emit or stored it, and not both.
C2_RaceExactlyOnePath ==
    last.op = "send_done" =>
        LET live == \E i \in 1..Len(last.emitted) : last.emitted[i].live
        IN  (live /\ last.stored = {}) \/ (~live /\ last.stored /= {})

\* C3: with max_messages = N the queue of every recipient holds at most N
\* undelivered messages in every reachable state, also when the COUNT and the
\* write of concurrent add_message calls interleave.
C3_QueueBounded ==
    \A u \in Users : GetQueueSize(messages, u) <= MaxMessages

\* C4: the undelivered direct messages the hub has stored for a recipient that
\* never had a connection number at most the queue bound.
C4_HubQueueBounded ==
    \A u \in Users :
       /\ GetQueueSize(messages, u) <= MaxMessages
       /\ Len(GetUndeliveredMessages(messages, u)) <= MaxMessages

\* C5: add_message on a recipient with exactly N undelivered messages deletes
\* exactly the earliest enqueued one (the lowest id) and inserts the new one;
\* below N nothing is deleted; every other row is unchanged.
C5_EvictsEarliestEnqueued ==
    last.op = "add_message" =>
        LET und  == Undelivered(last.pre, last.user)
            gone == RowIds(last.pre) \ RowIds(messages)
            n    == Len(messages)
        IN  /\ Len(und) = MaxMessages => gone = {und[1].id}
            /\ Len(und) < MaxMessages => gone = {}
            /\ n > 0
            /\ SubSeq(messages, 1, n - 1) = DeleteById(last.pre, gone)
            /\ messages[n].id = last.ret
            /\ messages[n].recipient_id = last.user
            /\ messages[n].delivered = 0

\* C6: get_messages and get_undelivered_messages return the undelivered
\* messages in the order they were enqueued (ascending id), whatever their
\* created_at stamps.
C6_DrainInEnqueueOrder ==
    last.op \in {"get_messages", "get_undelivered_messages"} =>
        \A i, j \in 1..Len(last.ret) : i < j => last.ret[i] < last.ret[j]

\* C7: a message once marked delivered keeps its stored state for ever (the
\* flag stays 1 and delivered_at keeps its value, also under a second
\* mark_delivered), and mark_delivered of an unknown id changes nothing.
C7_MarkDeliveredOneWay ==
    [][ /\ \A i \in 1..Len(messages) :
             messages[i].delivered = 1 =>
                 \A j \in 1..Len(messages') :
                     messages'[j].id = messages[i].id => messages'[j] = messages[i]
        /\ (last'.op = "mark_delivered" /\ last'.id \notin RowIds(messages))
               => messages' = messages ]_vars

\* C8: pool.add_connection(u, c) returns True and raises u's count by one iff
\* the count was below the limit; otherwise it returns False and changes
\* nothing; so no count ever exceeds the limit.
C8_PoolAdmission ==
    /\ \A u \in Users : GetUserConnectionCount(pool, u) <= MaxPerUser
    /\ last.op = "pool_add" =>
         LET n == GetUserConnectionCount(last.pre, last.user)
         IN  /\ last.ret = (n < MaxPerUser)
             /\ last.ret =>
                  /\ GetUserConnectionCount(pool, last.user) = n + 1
                  /\ \A v \in Users \ {last.user} :
                        DictGet(pool, v, <<>>) = DictGet(last.pre, v, <<>>)
             /\ ~last.ret => pool = last.pre

\* C8 witness: an attempt at the limit was rejected after a removal had made
\* room for an earlier one (the pool is full again).
C8_Witness ==
    /\ last.op = "pool_add"
    /\ ~last.ret
    /\ GetUserConnectionCount(pool, last.user) = MaxPerUser

\* C9: whatever the order in which the limit checks and insertions of concurrent
\* register handlers run, the ConnectionManager never holds more than
\* max_connections_per_user connections of one user.
C9_RegistryWithinLimit ==
    \A u \in Users : Len(GetUserConnections(CM, u)) <= MaxPerUser

\* C10: after every registry mutation, is_user_online(u) iff
\* get_user_connections(u) is non-empty, and get_online_users() is exactly
\* the set of those users.
C10_OnlineIffConnections ==
    /\ \A u \in Users : IsUserOnline(CM, u) <=> GetUserConnections(CM, u) /= <<>>
    /\ GetOnlineUsers(CM) = { u \in Users : GetUserConnections(CM, u) /= <<>> }

\* C10 witness: a remove_connection took a user's last connection while
\* another user stays online.
C10_Witness ==
    /\ last.op = "cm_remove"
    /\ last.user /= None
    /\ ~IsUserOnline(CM, last.user)
    /\ \E v \in Users : IsUserOnline(CM, v)

\* number of times x occurs in the list s
Occurrences(s, x) == Cardinality({ i \in 1..Len(s) : s[i] = x })

\* the list s without every occurrence of x
Without(s, x) == SelectSeq(s, LAMBDA y : y /= x)

\* C11: add_connection with a connection_id the registry already holds leaves
\* the registry unchanged (the existing connection keeps its user and session,
\* no user's list gains an entry).
C11_DuplicateAddRejected ==
    [][ (last'.op = "cm_add" /\ last'.conn \in DOMAIN connections) =>
            (connections' = connections /\ user_connections' = user_connections) ]_vars

\* C12: remove_connection of an id that is not registered changes nothing (so a
\* second removal of an id has no effect); of a registered id it deletes exactly
\* that entry of connections and one occurrence of the id in its user's list,
\* and no entry of any other id.
C12_RemoveExactlyThat ==
    [][ last'.op = "cm_remove" =>
          LET c == last'.conn
          IN  IF c \notin DOMAIN connections
              THEN connections' = connections /\ user_connections' = user_connections
              ELSE /\ connections' = DictDel(connections, c)
                   /\ \A u \in Users :
                        LET before == DictGet(user_connections, u, <<>>)
                            after  == DictGet(user_connections', u, <<>>)
                        IN  /\ Without(after, c) = Without(before, c)
                            /\ Occurrences(after, c) =
                                 IF u = connections[c].user_id
                                 THEN Occurrences(before, c) - 1
                                 ELSE Occurrences(before, c) ]_vars

\* C12 witness: a registered connection was removed and its user keeps another
\* one; removing it again is the case of an id that is not registered.
C12_Witness ==
    /\ last.op = "cm_remove"
    /\ last.user /= None
    /\ last.conn \notin DOMAIN connections
    /\ \E d \in DOMAIN connections :
          d /= last.conn /\ connections[d].user_id = last.user

\* C13: with the register and disconnect handlers run one at a time, the
\* presence table reports online for exactly the users of whom the registry
\* holds a connection: the disconnect of a last connection leaves the user
\* offline, the disconnect of one of several leaves the user online.
C13_PresenceMatchesRegistry ==
    StateOnlineUsers(presence) = { u \in Users : GetUserConnections(CM, u) /= <<>> }

\* C13 witness: a disconnect has just closed a user's last connection (presence
\* offline) while another user, still connected, is reported online.
C13_Witness ==
    /\ last.op = "disconnect"
    /\ \E u \in DOMAIN presence : presence[u].state = "offline"
    /\ \E v \in StateOnlineUsers(presence) : GetUserConnections(CM, v) /= <<>>

\* C14: when the registry steps and the presence steps of register and
\* disconnect handlers interleave, the presence table never reports online for
\* a user of whom the registry holds no connection; stated here for the states
\* in which no handler is between its two steps, where it fails already.
C14_NoStaleOnline ==
    (\A t \in Threads : threads[t].pc = "idle") =>
        \A u \in StateOnlineUsers(presence) : GetUserConnections(CM, u) /= <<>>

\* the membership row of a user in a room
Pair(room_id, user_id) == [room_id |-> room_id, user_id |-> user_id]

\* C15: join_room of a user who is not a member of an existing room fails and
\* changes nothing when the room holds max_members members, and otherwise
\* succeeds and adds exactly that user; so no room ever holds more members than
\* its max_members.
C15_JoinRespectsCapacity ==
    /\ [](\A r \in DOMAIN rooms : MemberCount(room_members, r) <= rooms[r].max_members)
    /\ [][ (/\ last'.op = "join_room"
            /\ last'.room \in DOMAIN rooms
            /\ Pair(last'.room, last'.user) \notin room_members) =>
              /\ rooms' = rooms
              /\ IF MemberCount(room_members, last'.room) = rooms[last'.room].max_members
                 THEN ~last'.ret /\ room_members' = room_members
                 ELSE /\ last'.ret
                      /\ room_members' =
                           room_members \cup {Pair(last'.room, last'.user)} ]_vars

\* C15 witness: a join_room of a non-member was refused by a full room.
C15_Witness ==
    /\ last.op = "join_room"
    /\ ~last.ret
    /\ last.room \in DOMAIN rooms
    /\ Pair(last.room, last.user) \notin room_members
    /\ MemberCount(room_members, last.room) = rooms[last.room].max_members

\* C16: when the count test and the insert of concurrent join_room calls
\* interleave, no room ever holds more members than its max_members.
C16_ConcurrentJoinsWithinCapacity ==
    \A r \in DOMAIN rooms : MemberCount(room_members, r) <= rooms[r].max_members

\* C17: join_room of a user who is already a member of the room returns
\* success and leaves the memberships unchanged, whatever the member count.
C17_JoinIdempotent ==
    [][ (/\ last'.op = "join_room"
         /\ Pair(last'.room, last'.user) \in room_members) =>
           (last'.ret /\ room_members' = room_members /\ rooms' = rooms) ]_vars

\* C18: join_room on a room_id for which no room exists returns failure and
\* changes no membership of any room.
C18_JoinUnknownRoomFails ==
    [][ (last'.op = "join_room" /\ last'.room \notin DOMAIN rooms) =>
           (~last'.ret /\ room_members' = room_members /\ rooms' = rooms) ]_vars

\* C18 witness: a join_room on a missing room was refused while another room
\* has members.
C18_Witness ==
    /\ last.op = "join_room"
    /\ last.room \notin DOMAIN rooms
    /\ ~last.ret
    /\ room_members /= {}

\* C19: leave_room(room, u) removes the pair (room, u) if it is there and
\* nothing else: it is a no-op for a non-member (so a second call has no
\* further effect), other users of the room and u's other rooms are untouched.
C19_LeaveRemovesOnlyThePair ==
    [][ last'.op = "leave_room" =>
           /\ room_members' = room_members \ {Pair(last'.room, last'.user)}
           /\ rooms' = rooms ]_vars

\* C19 witness: a user has left a room in which another user remains, and is
\* still a member of another room.
C19_Witness ==
    /\ last.op = "leave_room"
    /\ Pair(last.room, last.user) \notin room_members
    /\ GetRoomMembers(room_members, last.room) /= {}
    /\ GetUserRooms(room_members, last.user) /= {}

\* C20: create_room with a room_id that already exists returns normally and
\* changes neither the room's row (name, owner, privacy flag, max_members) nor
\* any membership.
C20_CreateExistingIsNoOp ==
    [][ (last'.op = "create_room" /\ last'.room \in DOMAIN rooms) =>
           (last'.ret /\ rooms' = rooms /\ room_members' = room_members) ]_vars

\* C20 witness: create_room was called on a room that has members (members are
\* only ever added to a room that exists, and create_room adds none, so the
\* room existed before the call).
C20_Witness ==
    /\ last.op = "create_room"
    /\ last.room \in DOMAIN rooms
    /\ MemberCount(room_members, last.room) > 0

\* C21: every row of room_members names a room that exists, whatever the
\* sequence and interleaving of create_room, join_room, leave_room and
\* delete_room.
C21_MembersOfExistingRooms ==
    \A m \in room_members : m.room_id \in DOMAIN rooms

\* C22: a register of user u handled in one piece emits every message that was
\* undelivered for u when it started, once to each connection of u, in the
\* order the messages were enqueued and with the payload that was stored, and
\* leaves no undelivered message for u.
C22_DrainOnRegister ==
    [][ (uuids' = uuids + 1 /\ last'.op = "register" /\ last'.ret = "registered") =>
          LET u == connections'[uuids'].user_id
              queued == Undelivered(messages, u)
              conns == DictGet(user_connections', u, <<>>)
          IN  /\ Len(last'.sends) = Len(queued)
              /\ \A k \in 1..Len(queued) :
                    LET e == last'.sends[k].emitted
                    IN  /\ [i \in 1..Len(e) |-> e[i].conn] = conns
                        /\ \A i \in 1..Len(e) : e[i].msg = Loads(queued[k].content)
              /\ CountUndelivered(messages', u) = 0 ]_vars

\* C23: deliver_queued_messages marks a row delivered only when the send of
\* that row's message emitted it to a connection of the user whose session is
\* connected; a row whose message was emitted to nobody stays undelivered.
C23_MarkedOnlyAfterEmit ==
    [][ \A i \in 1..Len(messages) :
          (messages[i].delivered = 0 /\ messages'[i].delivered = 1) =>
             \E k \in 1..Len(last'.sends) :
                \E j \in 1..Len(last'.sends[k].emitted) :
                   LET e == last'.sends[k].emitted[j]
                   IN  /\ e.msg = Loads(messages[i].content)
                       /\ \E sid \in Sessions : e.room = sid /\ sessions'[sid] = "open" ]_vars

\* C24: a finished send_to_user that started on a non-empty connection list and
\* made no emit to a connection that was still registered with a connected
\* session has stored the message as an undelivered row for the recipient.
C24_UnreachableFallsBack ==
    (last.op = "send_done" /\ \A i \in 1..Len(last.emitted) : ~last.emitted[i].live) =>
        \E id \in last.stored :
           \E i \in 1..Len(messages) :
              /\ messages[i].id = id
              /\ messages[i].recipient_id = last.user
              /\ messages[i].delivered = 0

\* C25: a send_to_user to a recipient with k >= 1 registered connections makes
\* k emits of the one message, the i-th to the session of the recipient's i-th
\* connection, and stores nothing; after a message event routed that way the
\* messages table is what it was.
C25_LiveSendEmitsToEach ==
    [][ \A k \in 1..Len(last'.sends) :
          LET s == last'.sends[k]
              conns == DictGet(user_connections', s.user, <<>>)
          IN  Len(conns) >= 1 =>
                /\ Len(s.emitted) = Len(conns)
                /\ \A i \in 1..Len(conns) :
                      /\ s.emitted[i].conn = conns[i]
                      /\ s.emitted[i].room = connections'[conns[i]].sid
                      /\ s.emitted[i].event = "message"
                      /\ s.emitted[i].msg = s.emitted[1].msg
                      /\ s.emitted[i].msg.recipient_id = s.user
                /\ \A i, j \in 1..Len(conns) : conns[i] = conns[j] => i = j
                /\ s.stored = {}
                /\ last'.op = "message" =>
                      /\ s.emitted[1].msg.id = message_count'
                      /\ messages' = messages ]_vars

\* C25 witness: a message event was routed to a recipient with two connections
\* and emitted twice.
C25_Witness ==
    /\ last.op = "message"
    /\ Len(last.sends) = 1
    /\ Len(last.sends[1].emitted) = 2
    /\ Len(DictGet(user_connections, last.sends[1].user, <<>>)) = 2

\* C26: a room message accepted by handle_room_message is emitted once, to the
\* Socket.IO room of its room id, and appended to the messages table as one row
\* with that room id and no recipient, whoever is online; no row of a room
\* message is in any user's undelivered queue, and no register re-sends one.
RoomRows(rows) == SelectSeq(rows, LAMBDA r : r.message_type = "room")

C26_RoomMessageStoredOnce ==
    [][ /\ (last'.op = "room_message" /\ last'.ret = "message_sent") =>
              LET s == last'.sends[1]
                  row == messages'[Len(messages')]
              IN  /\ Len(last'.sends) = 1
                  /\ Len(s.emitted) = 1
                  /\ s.emitted[1].event = "room_message"
                  /\ s.emitted[1].room = s.room
                  /\ s.emitted[1].msg.id = message_count'
                  /\ s.emitted[1].msg.room_id = s.room
                  /\ Len(messages') = Len(messages) + 1
                  /\ SubSeq(messages', 1, Len(messages)) = messages
                  /\ s.stored = {row.id}
                  /\ row.room_id = s.room
                  /\ row.recipient_id = None
                  /\ row.message_type = "room"
                  /\ Loads(row.content) = s.emitted[1].msg
        /\ \A u \in Users :
              /\ RoomRows(Undelivered(messages', u)) = <<>>
              /\ GetQueueSize(messages', u) + Len(RoomRows(messages')) <= Len(messages')
              /\ \A i \in 1..Len(GetUndeliveredMessages(messages', u)) :
                    GetUndeliveredMessages(messages', u)[i].message_type /= "room"
        /\ last'.op = "register" =>
              \A k \in 1..Len(last'.sends) :
                 \A i \in 1..Len(last'.sends[k].emitted) :
                    "room_id" \notin DOMAIN last'.sends[k].emitted[i].msg ]_vars

\* C26 witness: a register drained a direct message while the table held the
\* row of a room message, which it left alone.
C26_Witness ==
    /\ last.op = "register"
    /\ Len(last.sends) >= 1
    /\ \E i \in 1..Len(messages) :
          /\ messages[i].message_type = "room"
          /\ messages[i].delivered = 0
          /\ messages[i].recipient_id = None

\* C27: a broadcast reaches every connected session, except, when a user is
\* excluded, the sessions that user registered on, and stores nothing.
\* The sessions a set of emits reaches: an emit with no room reaches every
\* connected session, an emit to a sid that connected session.
Reached(emits) ==
    { sid \in Sessions :
        sessions[sid] = "open" /\ \E e \in emits : e.room = None \/ e.room = sid }

SessionsOf(user_id) ==
    { connections[c].sid : c \in { x \in DOMAIN connections :
                                      connections[x].user_id = user_id } }

C27_BroadcastReachesAll ==
    (last.op \in {"broadcast", "broadcast_to_all"} /\ last.ret = "broadcast_sent") =>
        /\ \A sid \in Sessions :
              (sessions[sid] = "open" /\ sid \notin SessionsOf(last.exclude)) =>
                  sid \in Reached(last.emits)
        /\ \A sid \in SessionsOf(last.exclude) :
              (\A u \in Users \ {last.exclude} : sid \notin SessionsOf(u)) =>
                  sid \notin Reached(last.emits)
        /\ messages = <<>>

\* C28: no message whose content is empty or whose type validate_message
\* refuses is emitted or stored by the message, room_message or broadcast
\* handler.
Acceptable(message) == ValidateMessage(message) /\ message.content /= ""

C28_InvalidRejected ==
    /\ \A i \in 1..Len(messages) :
          ~messages[i].content.null /\ Acceptable(Loads(messages[i].content))
    /\ "sends" \in DOMAIN last =>
          \A k \in 1..Len(last.sends) :
             \A i \in 1..Len(last.sends[k].emitted) :
                Acceptable(last.sends[k].emitted[i].msg)
    /\ "emits" \in DOMAIN last => \A e \in last.emits : Acceptable(e.msg)

\* C29: a message event answered with message_sent was routed: emitted to a
\* connection of its recipient, stored for the recipient, or broadcast.
C29_AcknowledgedIsRouted ==
    (last.op = "message" /\ last.ret = "message_sent") =>
        \/ \E k \in 1..Len(last.sends) :
              last.sends[k].emitted /= <<>> \/ last.sends[k].stored /= {}
        \/ "emits" \in DOMAIN last /\ last.emits /= {}

C31_ViewsAgree ==
    /\ \A r \in RoomIds, u \in Users :
          /\ (u \in GetRoomMembers(room_members, r)) <=> (r \in GetUserRooms(room_members, u))
          /\ (u \in GetRoomMembers(room_members, r)) <=>
                ([room_id |-> r, user_id |-> u] \in Joined)
    /\ \A r \in RoomIds :
          \A i \in GetRoomInfo(RS, r) :
             i.member_count = Cardinality(GetRoomMembers(room_members, r))
    /\ last.op = "get_room_members" =>
          last.ret = { u \in Users : [room_id |-> last.room, user_id |-> u] \in Joined }
    /\ last.op = "get_user_rooms" =>
          last.ret = { r \in RoomIds : [room_id |-> r, user_id |-> last.user] \in Joined }
    /\ last.op = "get_room_info" =>
          \A n \in last.ret :
             n = Cardinality({ u \in Users : [room_id |-> last.room, user_id |-> u] \in Joined })

\* C31 witness: get_room_info was read for a room with one member left, after a
\* user had joined two rooms and another had joined and left.
C31_Witness ==
    /\ last.op = "get_room_info"
    /\ last.ret = {1}
    /\ \E u \in Users : Cardinality(GetUserRooms(room_members, u)) = 2
    /\ \E u \in Users : GetUserRooms(room_members, u) = {}

\* C32: every envelope process_message returns carries the sender it was called
\* with and an id above every id returned before it, hence an id no earlier
\* call returned, also when the calls run on threads that interleave.
C32_IdsUnique ==
    last.op = "process_message" =>
        /\ last.ret.sender_id = last.sender
        /\ \A i, j \in 1..Len(last.returned) :
              i < j => last.returned[i] < last.returned[j]

\* C33: the ids returned by add_message and save_message increase strictly from
\* one call to the next, so none is returned twice, whatever rows were evicted
\* or swept in between, the row of the highest id included.
C33_IdsNeverReused ==
    \A i, j \in 1..Len(Ids) : i < j => Ids[i] < Ids[j]

\* C33 witness: an id was returned after the row of the id returned just
\* before it, the highest until then, had been deleted.
C33_Witness ==
    /\ last.op \in {"add_message", "save_message"}
    /\ Len(Ids) >= 2
    /\ Ids[Len(Ids) - 1] \notin RowIds(messages)
    /\ last.ret \in RowIds(messages)

\* C34: no queued message is emitted twice to one connection by
\* deliver_queued_messages, also when two register handlers of the user run
\* their deliver_queued_messages at once.
C34_DrainedOncePerConnection ==
    \A i, j \in 1..Len(Log) : Log[i] = Log[j] => i = j

\* C35: whenever no handler is in progress and a user has a connection whose
\* session is connected, no undelivered direct message is stored for that user,
\* also when the message was routed while the user's register was handled.
C35_NoStrandedMessage ==
    \A r \in Users :
       (/\ Busy = 0
        /\ \E i \in 1..Len(GetUserConnections(CM, r)) :
              LET c == GetUserConnections(CM, r)[i]
              IN  c \in DOMAIN connections /\ sessions[connections[c].sid] = "open")
         => CountUndelivered(messages, r) = 0

\* C36: once the disconnect of a session has been handled, the registry holds
\* no connection registered on that session, and a user whose connections were
\* all registered on sessions that have disconnected is not online.
C36_NoConnectionOfClosedSession ==
    /\ \A c \in DOMAIN connections : sessions[connections[c].sid] /= "closed"
    /\ \A u \in Users :
          IsUserOnline(CM, u) =>
             \E c \in DOMAIN connections :
                connections[c].user_id = u /\ sessions[connections[c].sid] = "open"

\* C37: after any add_connection and remove_connection calls, a connection id
\* is in a user's list, once, exactly when connections holds it for that user;
\* get_stats reports as total the sum of the per-user counts, and as online
\* users the number of users holding a connection.
C37_IndexesAgree ==
    /\ \A u \in Users, c \in ConnIds :
          /\ Occurrences(GetUserConnections(CM, u), c) <= 1
          /\ InList(GetUserConnections(CM, u), c) <=>
                (c \in DOMAIN connections /\ connections[c].user_id = u)
    /\ GetStats(CM).total_connections = TotalEntries(user_connections)
    /\ GetStats(CM).online_users =
          Cardinality({ u \in Users : \E c \in DOMAIN connections :
                                         connections[c].user_id = u })

\* C38: whenever no handler is in progress, ConnectionManager and
\* ConnectionPool hold the same connection ids for every user.
C38_PoolMatchesRegistry ==
    Busy = 0 =>
        \A u \in Users :
           { GetUserConnections(CM, u)[i] : i \in 1..Len(GetUserConnections(CM, u)) }
             = { DictGet(pool, u, <<>>)[i] : i \in 1..Len(DictGet(pool, u, <<>>)) }

\* C39: route_message hands the envelope of every raw message validate_message
\* accepts to exactly one hub method: send_to_user when the message names a
\* recipient, send_to_room when it names a room, broadcast_all when neither.
C39_ValidatedIsRouted ==
    (last.op = "route_message" /\ last.valid) =>
        /\ last.target = "user" => last.ret = "send_to_user" /\ Len(last.sends) = 1
        /\ last.target = "room" => last.ret = "send_to_room" /\ Len(last.sends) = 1
        /\ last.target = "all" => last.ret = "broadcast_all" /\ last.emits /= {}

\* C40: the in-memory queue of every user holds at most max_size messages; an
\* enqueue on a full queue drops that user's oldest message and nothing else,
\* and otherwise only appends; dequeue returns and removes the oldest message,
\* dequeue_all returns the messages in enqueue order and leaves the queue
\* empty; no call touches another user's queue.
C40_BoundedFifo ==
    /\ [](\A u \in Users : QueueSize(queues, u) <= MaxSize)
    /\ [][ \A u \in Users :
             LET q == queues[u]
                 n == Len(q)
             IN  IF last'.user /= u THEN queues'[u] = q
                 ELSE /\ last'.op = "enqueue" =>
                           /\ n < MaxSize => queues'[u] = q \o <<last'.msg>>
                           /\ n = MaxSize =>
                                 queues'[u] = SubSeq(q, 2, n) \o <<last'.msg>>
                      /\ last'.op = "dequeue" =>
                           /\ n = 0 => last'.ret = <<>> /\ queues'[u] = q
                           /\ n > 0 => /\ last'.ret = <<q[1]>>
                                       /\ queues'[u] = SubSeq(q, 2, n)
                      /\ last'.op = "dequeue_all" =>
                           last'.ret = q /\ queues'[u] = <<>>
                      /\ last'.op = "clear_queue" => queues'[u] = <<>> ]_vars

\* C40 witness: an enqueue on a full queue, while the other user's queue held
\* messages.
C40_Witness ==
    /\ last.op = "enqueue"
    /\ last.full
    /\ QueueSize(queues, last.user) = MaxSize
    /\ \E u \in Users : u /= last.user /\ QueueSize(queues, u) > 0

=============================================================================
